---- MODULE Spec2Model ----
(***************************************************************************)
(* Verification model of the AICP budget synchroniser                      *)
(* (flowtom/aicp-to-bigquery).                                              *)
(*                                                                         *)
(*   SpecFetch        the range-fetch retry loops of BudgetProcessor        *)
(*   SpecBudget       BudgetProcessor.process_budget, fetches included      *)
(*   SpecVersion      the version-tracking store, one run at a time         *)
(*   SpecVersionConc  two invocations sharing the version-tracking file     *)
(***************************************************************************)
EXTENDS Integers, Sequences, FiniteSets, TLC

(***************************************************************************)
(* Bounds of the model (not program constants).                            *)
(***************************************************************************)
MaxPopulated == 1
MaxRows == 1
MaxRuns == 3

(***************************************************************************)
(* Small helpers over sequences.                                           *)
(***************************************************************************)
RECURSIVE SumSeq(_)
SumSeq(s) == IF s = << >> THEN 0 ELSE Head(s) + SumSeq(Tail(s))

IsPrefix(s, t) == Len(s) <= Len(t) /\ SubSeq(t, 1, Len(s)) = s

\* Python: needle in str(e), the text of e being a sequence of tokens
Contains(text, token) == \E i \in 1..Len(text) : text[i] = token

(***************************************************************************)
(* Range fetch with retry: _get_range_values, _get_range_values_batch and  *)
(* _batch_get_values.                                                      *)
(***************************************************************************)
VARIABLES f_variant, f_site, f_pc, f_attempt, f_calls, f_sleeps, f_result

fetchVars == << f_variant, f_site, f_pc, f_attempt, f_calls, f_sleeps, f_result >>

FetchVariants == { "get_range_values", "get_range_values_batch", "batch_get_values" }

max_retries == 5
base_delay == 2

RECURSIVE Pow2(_)
Pow2(n) == IF n = 0 THEN 1 ELSE 2 * Pow2(n - 1)

BackoffDelayLinear(attempt) == base_delay * (attempt + 1)
\* delay = base_delay * (2 ** attempt)
BackoffDelay(attempt) == base_delay * Pow2(attempt)

\* texts of the exceptions the Sheets client raises, as token sequences
RateLimitError == << "HttpError", "429", "RATE_LIMIT_EXCEEDED" >>
NotFoundError == << "HttpError", "404", "Requested", "entity", "was", "not", "found" >>
PermissionError == << "HttpError", "403", "PERMISSION_DENIED" >>
ServiceErrors == { RateLimitError, NotFoundError, PermissionError }

IsRateLimitAlways(e) == TRUE
\* 'RATE_LIMIT_EXCEEDED' in str(e)
IsRateLimit(e) == Contains(e, "RATE_LIMIT_EXCEEDED")

\* attempt < max_retries - 1
MayRetry(attempt) == attempt < max_retries - 1

NoResult == [ kind |-> "none" ]
Returned(v) == [ kind |-> "return", value |-> v ]
Raised(e) == [ kind |-> "raise", error |-> e ]

CallValues(p) == [ kind |-> "values", value |-> p ]
CallError(e) == [ kind |-> "error", error |-> e ]

\* start of a fetch: for attempt in range(max_retries)
FetchStart(variant, site) ==
    /\ f_variant' = variant
    /\ f_site' = site
    /\ f_pc' = "call"
    /\ f_attempt' = 0
    /\ f_calls' = << >>
    /\ f_sleeps' = << >>
    /\ f_result' = NoResult

FetchIdle ==
    /\ f_variant = "get_range_values"
    /\ f_site = "idle"
    /\ f_pc = "idle"
    /\ f_attempt = 0
    /\ f_calls = << >>
    /\ f_sleeps = << >>
    /\ f_result = NoResult

\* values drawn for a successful answer at each call site
StandalonePayloads == { << >>, << << <<"v1">> >> >>, << << <<"v2">> >> >>, << << <<"v1">>, <<"v2">> >> >> }

\* .execute() answers: the try body returns
FetchCallOk(payloads) ==
    /\ f_pc = "call"
    /\ \E p \in payloads :
        /\ f_result' = Returned(p)
        /\ f_calls' = Append(f_calls, CallValues(p))
    /\ f_pc' = "returned"
    /\ UNCHANGED << f_variant, f_site, f_attempt, f_sleeps >>

\* .execute() raises e: the except branch
FetchCallRaises ==
    /\ f_pc = "call"
    /\ \E e \in ServiceErrors :
        /\ f_calls' = Append(f_calls, CallError(e))
        /\ IF IsRateLimit(e) /\ MayRetry(f_attempt)
              THEN /\ f_pc' = "sleep"
                   /\ f_result' = f_result
              ELSE /\ f_pc' = "raised"
                   /\ f_result' = Raised(e)
    /\ UNCHANGED << f_variant, f_site, f_attempt, f_sleeps >>

\* time.sleep(delay); continue
FetchSleep ==
    /\ f_pc = "sleep"
    /\ f_sleeps' = Append(f_sleeps, BackoffDelay(f_attempt))
    /\ f_attempt' = f_attempt + 1
    /\ f_pc' = "call"
    /\ UNCHANGED << f_variant, f_site, f_calls, f_result >>

FetchDone == f_pc \in { "returned", "raised" }

(***************************************************************************)
(* State of process_budget (the b_ variables) and of the version tracking   *)
(* (store: the tracking file; the v_ variables: each invocation's locals), *)
(* then SpecFetch: one fetch, any variant, against a service that may      *)
(* answer each call with values or with an error.                          *)
(***************************************************************************)
VARIABLES b_pc, b_idx, b_sheet, b_cover, b_classes, b_header, b_name, b_data,
          b_class_data, b_log, b_extracted, b_errors, b_present, b_result

budgetVars == << b_pc, b_idx, b_sheet, b_cover, b_classes, b_header, b_name,
                 b_data, b_class_data, b_log, b_extracted, b_errors, b_present,
                 b_result >>

VARIABLES store, seed, runs, handed, v_pc, v_in, v_local, v_hash, v_ret

versionVars == << store, seed, runs, handed, v_pc, v_in, v_local, v_hash, v_ret >>

\* the request handlers (the h_ variables), the upload script (the u_
\* variables), one row through _process_line_item (the li_ variables) and
\* one Budget through its validation (the bg_ variables)
VARIABLES h_pc, h_event, h_response, h_calls

handlerVars == << h_pc, h_event, h_response, h_calls >>

VARIABLES u_pc, u_input, u_warehouse, u_results

uploadVars == << u_pc, u_input, u_warehouse, u_results >>

VARIABLES li_pc, li_class, li_rows, li_items

itemVars == << li_pc, li_class, li_rows, li_items >>

VARIABLES bg_pc, bg_classes, bg_validation

modelVars == << bg_pc, bg_classes, bg_validation >>

\* one class through the end of _process_class (the rc_ variables)
VARIABLES rc_pc, rc_input, rc_class

reconVars == << rc_pc, rc_input, rc_class >>

\* one processed budget through format_line_items_for_bq (the fl_ variables)
VARIABLES fl_pc, fl_data, fl_rows

flatVars == << fl_pc, fl_data, fl_rows >>

\* one cell label through _parse_cell_ref (the cr_ variables)
VARIABLES cr_pc, cr_label, cr_result

cellVars == << cr_pc, cr_label, cr_result >>

\* one value through a money normalizer (the mn_ variables)
VARIABLES mn_pc, mn_fn, mn_value, mn_outcome

moneyVars == << mn_pc, mn_fn, mn_value, mn_outcome >>

\* one class through _get_class_totals (the ct_ variables)
VARIABLES ct_pc, ct_class, ct_sheet, ct_totals

totalsVars == << ct_pc, ct_class, ct_sheet, ct_totals >>

\* one request through handle_job_webhook (the wh_ variables)
VARIABLES wh_pc, wh_payload, wh_job, wh_budget, wh_calls, wh_response

webhookVars == << wh_pc, wh_payload, wh_job, wh_budget, wh_calls, wh_response >>

lateVars == << reconVars, flatVars, cellVars, moneyVars, totalsVars, webhookVars >>

extVars == << handlerVars, uploadVars, itemVars, modelVars, lateVars >>

vars == << fetchVars, budgetVars, versionVars, extVars >>

NoKey == << >>
Procs == { 1, 2 }

BudgetIdle ==
    /\ b_pc = "idle"
    /\ b_idx = 0
    /\ b_sheet = NoKey
    /\ b_cover = FALSE
    /\ b_classes = << >>
    /\ b_header = << >>
    /\ b_name = << >>
    /\ b_data = << >>
    /\ b_class_data = << >>
    /\ b_log = << >>
    /\ b_extracted = { }
    /\ b_errors = "none"
    /\ b_present = 0
    /\ b_result = NoResult

NoEvent == << >>
NoResponse == [ statusCode |-> 0 ]

HandlerIdle ==
    /\ h_pc = "idle"
    /\ h_event = NoEvent
    /\ h_response = NoResponse
    /\ h_calls = << >>

UploadIdle ==
    /\ u_pc = "idle"
    /\ u_input = << >>
    /\ u_warehouse = << >>
    /\ u_results = << >>

ItemIdle ==
    /\ li_pc = "idle"
    /\ li_class = ""
    /\ li_rows = << >>
    /\ li_items = << >>

ModelIdle ==
    /\ bg_pc = "idle"
    /\ bg_classes = << >>
    /\ bg_validation = << >>

ReconIdle ==
    /\ rc_pc = "idle"
    /\ rc_input = << >>
    /\ rc_class = << >>

FlatIdle ==
    /\ fl_pc = "idle"
    /\ fl_data = << >>
    /\ fl_rows = << >>

CellIdle ==
    /\ cr_pc = "idle"
    /\ cr_label = << >>
    /\ cr_result = << >>

MoneyIdle ==
    /\ mn_pc = "idle"
    /\ mn_fn = ""
    /\ mn_value = << >>
    /\ mn_outcome = << >>

TotalsIdle ==
    /\ ct_pc = "idle"
    /\ ct_class = ""
    /\ ct_sheet = << >>
    /\ ct_totals = << >>

WebhookIdle ==
    /\ wh_pc = "idle"
    /\ wh_payload = << >>
    /\ wh_job = << >>
    /\ wh_budget = << >>
    /\ wh_calls = << >>
    /\ wh_response = << >>

LateIdle == ReconIdle /\ FlatIdle /\ CellIdle /\ MoneyIdle /\ TotalsIdle /\ WebhookIdle

\* the variables other than those of one group
OtherThanRecon == << fetchVars, budgetVars, versionVars, handlerVars, uploadVars, itemVars,
                     modelVars, flatVars, cellVars, moneyVars, totalsVars, webhookVars >>

OtherThanFlat == << fetchVars, budgetVars, versionVars, handlerVars, uploadVars, itemVars,
                    modelVars, reconVars, cellVars, moneyVars, totalsVars, webhookVars >>

OtherThanCell == << fetchVars, budgetVars, versionVars, handlerVars, uploadVars, itemVars,
                    modelVars, reconVars, flatVars, moneyVars, totalsVars, webhookVars >>

OtherThanMoney == << fetchVars, budgetVars, versionVars, handlerVars, uploadVars, itemVars,
                     modelVars, reconVars, flatVars, cellVars, totalsVars, webhookVars >>

OtherThanTotals == << fetchVars, budgetVars, versionVars, handlerVars, uploadVars, itemVars,
                      modelVars, reconVars, flatVars, cellVars, moneyVars, webhookVars >>

OtherThanWebhook == << fetchVars, budgetVars, versionVars, handlerVars, uploadVars, itemVars,
                       modelVars, reconVars, flatVars, cellVars, moneyVars, totalsVars >>

ExtIdle == HandlerIdle /\ UploadIdle /\ ItemIdle /\ ModelIdle /\ LateIdle

VersionIdle ==
    /\ store = << >>
    /\ seed = [ p \in Procs |-> 0 ]
    /\ runs = 0
    /\ handed = << >>
    /\ v_pc = [ p \in Procs |-> "idle" ]
    /\ v_in = [ p \in Procs |-> << >> ]
    /\ v_local = [ p \in Procs |-> << >> ]
    /\ v_hash = [ p \in Procs |-> 0 ]
    /\ v_ret = [ p \in Procs |-> << >> ]

InitFetch ==
    /\ \E variant \in FetchVariants :
        /\ f_variant = variant
        /\ f_site = "standalone"
    /\ f_pc = "call"
    /\ f_attempt = 0
    /\ f_calls = << >>
    /\ f_sleeps = << >>
    /\ f_result = NoResult
    /\ BudgetIdle
    /\ VersionIdle
    /\ ExtIdle

FetchCallOkStandalone == FetchCallOk(StandalonePayloads) /\ UNCHANGED << extVars, budgetVars, versionVars >>
FetchCallRaisesStandalone == FetchCallRaises /\ UNCHANGED << extVars, budgetVars, versionVars >>
FetchSleepStandalone == FetchSleep /\ UNCHANGED << extVars, budgetVars, versionVars >>

NextFetch == FetchCallOkStandalone \/ FetchCallRaisesStandalone \/ FetchSleepStandalone

SpecFetch == InitFetch /\ [][NextFetch]_vars

(***************************************************************************)
(* Version tracking: output/version_tracking.json, _get_version_numbers,   *)
(* _generate_upload_id and the older _get_increment_number that writes the *)
(* same file.                                                              *)
(***************************************************************************)
\* titles as sequences of characters
SpreadsheetTitles == { << "B", "-", "2" >> }
SheetTitles == { << "S" >>, << "T", " ", "1" >> }
Dates == { "11-02-26" }
Seeds == { 0, 1 }

\* c.isalnum()
IsAlnum(c) == c \in { "B", "S", "T", "1", "2", "Sheet", "7" }

\* '_'.join(''.join(c if c.isalnum() else ' ' for c in title).split())
RECURSIVE JoinWords(_, _, _)
JoinWords(t, acc, gap) ==
    IF t = << >> THEN acc
    ELSE IF ~IsAlnum(Head(t)) THEN JoinWords(Tail(t), acc, acc # << >>)
    ELSE JoinWords(Tail(t), IF gap THEN acc \o << "_", Head(t) >> ELSE Append(acc, Head(t)), FALSE)

CleanTitle(title) == JoinWords(title, << >>, FALSE)

\* key = f"{file_name}-{sheet_name}"
TrackingKey(file_name, sheet_name) == file_name \o << "-" >> \o sheet_name

\* k.startswith(file_name)
StartsWith(k, prefix) == IsPrefix(prefix, k)

\* current_data values and str(current_data)
EmptyDict == << >>
DataValues == { EmptyDict, << "rows", "1" >> }
StrOf(data) == << "{" >> \o data \o << "}" >>

CharCode(c) ==
    CASE c = "{" -> 1 [] c = "}" -> 2 [] c = "rows" -> 3 [] c = "1" -> 4 [] c = "2" -> 5 [] OTHER -> 6

\* hash(text) of a str: a function of the text and of the process's hash seed
RECURSIVE PyHash(_, _)
PyHash(text, sd) ==
    IF text = << >> THEN 7 * sd
    ELSE CharCode(text[Len(text)]) + 31 * PyHash(SubSeq(text, 1, Len(text) - 1), sd)

IsOldFormat(entry) == "current_increment" \in DOMAIN entry

\* old format migration (current_increment -> semantic version)
Migrated(entry, date_str, current_hash) ==
    [ major_version |-> 1,
      minor_version |-> 0,
      patch_version |-> entry.current_increment,
      first_seen |-> entry.first_seen,
      last_updated |-> date_str,
      last_data_hash |-> current_hash ]

MigrateOld(tracking_data, key, date_str, current_hash) ==
    IF key \in DOMAIN tracking_data /\ IsOldFormat(tracking_data[key])
    THEN [ tracking_data EXCEPT ![key] = Migrated(@, date_str, current_hash) ]
    ELSE tracking_data

\* previous_versions = [k for k in tracking_data.keys() if k.startswith(file_name) and k != key]
PreviousVersions(tracking_data, file_name, key) ==
    { k \in DOMAIN tracking_data : StartsWith(k, file_name) /\ k # key }

NewEntry(tracking_data, file_name, key, date_str, current_hash) ==
    [ major_version |-> Cardinality(PreviousVersions(tracking_data, file_name, key)) + 1,
      minor_version |-> 0,
      patch_version |-> 1,
      first_seen |-> date_str,
      last_updated |-> date_str,
      last_data_hash |-> current_hash ]

BumpAlwaysPatch(entry, date_str, current_hash) ==
    [ entry EXCEPT !.patch_version = @ + 1, !.last_updated = date_str ]
BumpMajorToo(entry, date_str, current_hash) ==
    IF current_hash = entry.last_data_hash
    THEN [ entry EXCEPT !.patch_version = @ + 1, !.last_updated = date_str ]
    ELSE [ entry EXCEPT !.major_version = @ + 1, !.minor_version = 0, !.patch_version = 1,
                        !.last_data_hash = current_hash, !.last_updated = date_str ]
\* the else branch: patch bump on an equal hash, minor bump otherwise
Bump(entry, date_str, current_hash) ==
    IF current_hash = entry.last_data_hash
    THEN [ entry EXCEPT !.patch_version = @ + 1, !.last_updated = date_str ]
    ELSE [ entry EXCEPT !.minor_version = @ + 1, !.patch_version = 1,
                        !.last_data_hash = current_hash, !.last_updated = date_str ]

\* tracking_data as _get_version_numbers leaves it before json.dump
UpdatedTracking(tracking_data, file_name, sheet_name, date_str, current_hash) ==
    LET key == TrackingKey(file_name, sheet_name)
        td == MigrateOld(tracking_data, key, date_str, current_hash)
    IN  IF key \notin DOMAIN td
        THEN (key :> NewEntry(td, file_name, key, date_str, current_hash)) @@ td
        ELSE [ td EXCEPT ![key] = Bump(@, date_str, current_hash) ]

VersionTriple(tracking_data, key) ==
    << tracking_data[key].major_version,
       tracking_data[key].minor_version,
       tracking_data[key].patch_version >>

\* except Exception: return 1, 0, 1
DefaultTriple == << 1, 0, 1 >>

\* _get_increment_number of the older BudgetProcessor: the entry it writes
LegacyUpdated(tracking_data, key, date_str) ==
    IF key \notin DOMAIN tracking_data
    THEN (key :> [ current_increment |-> 1, first_seen |-> date_str, last_updated |-> date_str ]) @@ tracking_data
    ELSE [ tracking_data EXCEPT ![key] = [ @ EXCEPT !.current_increment = @ + 1, !.last_updated = date_str ] ]

\* tracking_data[key]['current_increment'] raises KeyError on a new-format entry
LegacyRaises(tracking_data, key) ==
    key \in DOMAIN tracking_data /\ ~IsOldFormat(tracking_data[key])

\* the inputs of one call, per caller
\*   version: _get_version_numbers(file_name, sheet_name, date_str, current_data)
\*   upload:  _generate_upload_id(spreadsheet_title, sheet_title) for an assembled budget
\*   legacy:  _get_increment_number(file_name, sheet_name, date_str)
Contents == { "content_a", "content_b" }

VersionInputs ==
    [ kind : { "version" }, file : { CleanTitle(t) : t \in SpreadsheetTitles },
      sheet : { CleanTitle(t) : t \in SheetTitles }, date : Dates,
      data : DataValues, content : { "n/a" } ]

\* major, minor, patch = self._get_version_numbers(clean_file, clean_sheet, date_str, {})
UploadData(content) == EmptyDict

UploadInput(spreadsheet_title, sheet_title, date_str, content) ==
    [ kind |-> "upload", file |-> CleanTitle(spreadsheet_title),
      sheet |-> CleanTitle(sheet_title), date |-> date_str,
      data |-> UploadData(content), content |-> content ]

UploadInputs ==
    { UploadInput(st, sh, d, c) : st \in SpreadsheetTitles, sh \in SheetTitles, d \in Dates, c \in Contents }

LegacyInputs ==
    [ kind : { "legacy" }, file : { CleanTitle(t) : t \in SpreadsheetTitles },
      sheet : { CleanTitle(t) : t \in SheetTitles }, date : Dates,
      data : { EmptyDict }, content : { "n/a" } ]

KeyOf(in) == TrackingKey(in.file, in.sheet)

\* what the except branch hands back
FallbackOf(in) == IF in.kind = "legacy" THEN << 1 >> ELSE DefaultTriple

\* history of what each key's calls were handed (for the properties only)
Handed(in, ret, ok) == [ kind |-> in.kind, content |-> in.content, triple |-> ret, ok |-> ok ]

Record(h, in, ret, ok) ==
    IF KeyOf(in) \in DOMAIN h
    THEN [ h EXCEPT ![KeyOf(in)] = Append(@, Handed(in, ret, ok)) ]
    ELSE (KeyOf(in) :> << Handed(in, ret, ok) >>) @@ h

\* a call starts: mkdir, exists() and json.load of the tracking file, then
\* key and current_hash; a failing file access lands in the except branch
VBegin(p, in) ==
    /\ v_pc[p] # "read"
    /\ runs < MaxRuns
    /\ runs' = runs + 1
    /\ v_in' = [ v_in EXCEPT ![p] = in ]
    /\ \E io \in { "ok", "fail" } :
        IF io = "ok"
        THEN /\ v_pc' = [ v_pc EXCEPT ![p] = "read" ]
             /\ v_local' = [ v_local EXCEPT ![p] = store ]
             /\ v_hash' = [ v_hash EXCEPT ![p] = PyHash(StrOf(in.data), seed[p]) ]
             /\ v_ret' = [ v_ret EXCEPT ![p] = << >> ]
             /\ handed' = handed
        ELSE /\ v_pc' = [ v_pc EXCEPT ![p] = "failed" ]
             /\ v_local' = [ v_local EXCEPT ![p] = << >> ]
             /\ v_hash' = [ v_hash EXCEPT ![p] = 0 ]
             /\ v_ret' = [ v_ret EXCEPT ![p] = FallbackOf(in) ]
             /\ handed' = Record(handed, in, FallbackOf(in), FALSE)
    /\ UNCHANGED << store, seed >>

\* the tracking data the call writes back: what it loaded, updated
WriteBaseFresh(loaded, current) == current
WriteBase(loaded, current) == loaded

\* the call updates its tracking_data, rewrites the whole file from it and
\* returns the key's version; a failing update or write lands in the except
\* branch and leaves the file as it is
VWrite(p) ==
    /\ v_pc[p] = "read"
    /\ LET in == v_in[p]
           key == KeyOf(in)
           base == WriteBase(v_local[p], store)
           td == IF in.kind = "legacy"
                 THEN LegacyUpdated(base, key, in.date)
                 ELSE UpdatedTracking(base, in.file, in.sheet, in.date, v_hash[p])
           ret == IF in.kind = "legacy" THEN << td[key].current_increment >>
                  ELSE VersionTriple(td, key)
       IN  \E io \in { "ok", "fail" } :
            IF io = "ok" /\ ~(in.kind = "legacy" /\ LegacyRaises(base, key))
            THEN /\ store' = td
                 /\ v_pc' = [ v_pc EXCEPT ![p] = "done" ]
                 /\ v_ret' = [ v_ret EXCEPT ![p] = ret ]
                 /\ handed' = Record(handed, in, ret, TRUE)
            ELSE /\ store' = store
                 /\ v_pc' = [ v_pc EXCEPT ![p] = "failed" ]
                 /\ v_ret' = [ v_ret EXCEPT ![p] = FallbackOf(in) ]
                 /\ handed' = Record(handed, in, FallbackOf(in), FALSE)
    /\ UNCHANGED << seed, runs, v_in, v_local, v_hash >>

\* a new interpreter process: str hashes are salted per process
Restart(p) ==
    /\ v_pc[p] # "read"
    /\ \E sd \in Seeds \ { seed[p] } : seed' = [ seed EXCEPT ![p] = sd ]
    /\ UNCHANGED << store, runs, handed, v_pc, v_in, v_local, v_hash, v_ret >>

(***************************************************************************)
(* SpecVersion: runs that do not overlap (one invocation at a time).       *)
(***************************************************************************)
InitVersion == FetchIdle /\ BudgetIdle /\ VersionIdle /\ ExtIdle

GetVersionNumbers == (\E in \in VersionInputs : VBegin(1, in)) /\ UNCHANGED << extVars, fetchVars, budgetVars >>
GenerateUploadId == (\E in \in UploadInputs : VBegin(1, in)) /\ UNCHANGED << extVars, fetchVars, budgetVars >>
GetIncrementNumber == (\E in \in LegacyInputs : VBegin(1, in)) /\ UNCHANGED << extVars, fetchVars, budgetVars >>
SaveTracking == VWrite(1) /\ UNCHANGED << extVars, fetchVars, budgetVars >>
NewProcess == Restart(1) /\ UNCHANGED << extVars, fetchVars, budgetVars >>

NextVersion == GetVersionNumbers \/ GenerateUploadId \/ GetIncrementNumber \/ SaveTracking \/ NewProcess

SpecVersion == InitVersion /\ [][NextVersion]_vars

(***************************************************************************)
(* SpecVersionConc: two invocations, each its own process, reading and     *)
(* rewriting the tracking file without any lock.                           *)
(***************************************************************************)
InitVersionConc ==
    /\ FetchIdle
    /\ BudgetIdle
    /\ ExtIdle
    /\ store = << >>
    /\ seed \in [ Procs -> Seeds ]
    /\ runs = 0
    /\ handed = << >>
    /\ v_pc = [ p \in Procs |-> "idle" ]
    /\ v_in = [ p \in Procs |-> << >> ]
    /\ v_local = [ p \in Procs |-> << >> ]
    /\ v_hash = [ p \in Procs |-> 0 ]
    /\ v_ret = [ p \in Procs |-> << >> ]

LoadTracking ==
    /\ \E p \in Procs : \E in \in UploadInputs : VBegin(p, in)
    /\ UNCHANGED << extVars, fetchVars, budgetVars >>

DumpTracking == (\E p \in Procs : VWrite(p)) /\ UNCHANGED << extVars, fetchVars, budgetVars >>

NextVersionConc == LoadTracking \/ DumpTracking

SpecVersionConc == InitVersionConc /\ [][NextVersionConc]_vars

(***************************************************************************)
(* process_budget: sheet info, cover sheet, the class loop, upload ID.     *)
(***************************************************************************)
\* CLASS_MAPPINGS.items(), in the order of the dict literal
MappingKeysM2Last ==
    << "COVER_SHEET", "A", "B", "C", "D", "E", "F", "G", "H", "I", "J", "K", "L", "M",
       "N", "O", "P", "M2" >>
MappingKeys ==
    << "COVER_SHEET", "A", "B", "C", "D", "E", "F", "G", "H", "I", "J", "K", "L", "M",
       "M2", "N", "O", "P" >>

\* classes whose class_name_cell differs from their class_code_cell
TwoCellHeader == { "A", "B", "F", "G", "H", "I", "J", "K", "L" }
\* classes whose pw_cells carry an 'estimate' cell
HasPw == { "A", "B", "G", "M" }
\* classes with a client_total_cell
HasClientTotal == { "K", "L", "O" }

\* len(ranges) in _get_class_totals
NumTotalRanges(c) ==
    4 + (IF c \in HasPw THEN 2 ELSE 0) + (IF c \in HasClientTotal THEN 1 ELSE 0)

\* if class_code == 'COVER_SHEET': continue
RECURSIVE NextClassIdx(_)
NextClassIdx(i) ==
    IF i > Len(MappingKeys) THEN i
    ELSE IF MappingKeys[i] = "COVER_SHEET" THEN NextClassIdx(i + 1)
    ELSE i

\* where the loop goes on after the except branch of one class
AfterClassErrorAbort(i) == Len(MappingKeys) + 1
AfterClassError(i) == i + 1

\* cells are texts (sequences of tokens), rows sequences of cells, the values
\* of a range sequences of rows
CodeCell(c) == << c >>
NameCell == << "NAME" >>
CombinedCell(c) == << c, ":", " ", "NAME" >>
EmptyCell == << >>

HeaderPayloads(c) ==
    IF c \in TwoCellHeader
    THEN { << >>, << << CodeCell(c) >> >>, << << CodeCell(c), NameCell >> >>,
           << << CombinedCell(c) >> >> }
    ELSE { << >>, << << CodeCell(c) >> >>, << << CombinedCell(c) >> >> }

NamePayloads == { << >>, << << NameCell >> >> }

RowShapes ==
    { << >>, << << "1" >> >>, << << "1" >>, << "crew" >> >>, << EmptyCell, << "crew" >> >> }

DataPayloads == UNION { [ 1..n -> RowShapes ] : n \in 0..MaxRows }

TotalsPayloads(c) ==
    { [ i \in 1..n |-> << << << "$", "1" >> >> >> ] : n \in { 0, NumTotalRanges(c) } }

CoverPayloads == { << >>, << << << "Title" >> >> >> }

\* text.strip()
RECURSIVE Strip(_)
Strip(text) ==
    IF text = << >> THEN text
    ELSE IF Head(text) = " " THEN Strip(Tail(text))
    ELSE IF text[Len(text)] = " " THEN Strip(SubSeq(text, 1, Len(text) - 1))
    ELSE text

\* text.split(":", 1)[1]
RECURSIVE AfterColon(_)
AfterColon(text) ==
    IF text = << >> THEN << >>
    ELSE IF Head(text) = ":" THEN Tail(text)
    ELSE AfterColon(Tail(text))

\* _get_class_name before its own fetch: the name, or "fetch" when the name
\* cell has to be read
ClassNameFromHeader(header_values, c) ==
    LET row == header_values[1]
        header_text == IF row # << >> THEN row[1] ELSE << >>
    IN  IF Len(row) > 1 THEN [ kind |-> "name", name |-> row[2] ]
        ELSE IF StartsWith(header_text, << c, ":" >>)
             THEN [ kind |-> "name", name |-> Strip(AfterColon(header_text)) ]
             ELSE [ kind |-> "fetch" ]

\* name_values[0][0] if name_values and name_values[0] else None
ClassNameFromCell(name_values) ==
    IF name_values # << >> /\ name_values[1] # << >> THEN name_values[1][1] ELSE << >>

\* _process_line_item: None without a line number or a description
KeepsRow(row) == row # << >> /\ Len(row) >= 2 /\ row[1] # << >> /\ row[2] # << >>

LineItem(row, c, class_name) ==
    [ line_item_number |-> row[1], line_item_description |-> row[2] ]

\* the loop over data_values in _process_class
RECURSIVE LineItems(_, _, _)
LineItems(rows, c, class_name) ==
    IF rows = << >> THEN << >>
    ELSE IF KeepsRow(Head(rows))
         THEN << LineItem(Head(rows), c, class_name) >> \o LineItems(Tail(rows), c, class_name)
         ELSE LineItems(Tail(rows), c, class_name)

\* results[result_index] raises IndexError when the batch answer is short
TotalsRaise(results, c) == Len(results) < NumTotalRanges(c)

BudgetClass(c, class_name, line_items) ==
    [ class_code |-> c, class_name |-> class_name, line_items |-> line_items ]

ReturnNone == [ kind |-> "return_none" ]

CurrentClass == MappingKeys[b_idx]

\* the loop reaches index i: the next class's header fetch starts, or the
\* loop is over
ClassBegin(i) ==
    LET j == NextClassIdx(i)
    IN  /\ b_idx' = j
        /\ b_header' = << >>
        /\ b_name' = << >>
        /\ b_data' = << >>
        /\ b_class_data' = << >>
        /\ IF j > Len(MappingKeys)
           THEN /\ b_pc' = "upload_id"
                /\ b_log' = b_log
                /\ FetchStart("get_range_values", "idle")
           ELSE /\ b_pc' = "hdr"
                /\ b_log' = Append(b_log, MappingKeys[j])
                /\ FetchStart("get_range_values", "hdr")

\* except Exception as e: logged, the loop goes on
Swallow ==
    /\ b_errors' = IF b_errors = "none" THEN "swallowed" ELSE b_errors
    /\ ClassBegin(AfterClassError(b_idx))

\* continue, or _process_class returned None
SkipClass ==
    /\ b_errors' = b_errors
    /\ ClassBegin(b_idx + 1)

\* the end of the try body: on to the next class
ClassDone ==
    /\ b_errors' = IF b_errors = "swallowed" THEN "swallowed_then_stored" ELSE b_errors
    /\ ClassBegin(b_idx + 1)

InitBudget ==
    /\ FetchIdle
    /\ VersionIdle
    /\ ExtIdle
    /\ b_pc = "start"
    /\ b_idx = 0
    /\ b_sheet = NoKey
    /\ b_cover = FALSE
    /\ b_classes = << >>
    /\ b_header = << >>
    /\ b_name = << >>
    /\ b_data = << >>
    /\ b_class_data = << >>
    /\ b_log = << >>
    /\ b_extracted = { }
    /\ b_errors = "none"
    /\ b_present = 0
    /\ b_result = NoResult

\* _get_sheet_info, then the cover sheet's batch fetch starts
GetSheetInfo ==
    /\ b_pc = "start"
    /\ \E answer \in { "found", "no_such_gid", "error" } :
        IF answer = "error"
        THEN /\ b_pc' = "done"
             /\ b_result' = ReturnNone
             /\ UNCHANGED << b_sheet, fetchVars >>
        ELSE /\ b_pc' = "cover"
             /\ b_result' = b_result
             /\ \E st \in SpreadsheetTitles :
                 b_sheet' = [ spreadsheet_title |-> st,
                              title |-> IF answer = "found" THEN << "S" >> ELSE << "Sheet", "_", "7" >> ]
             /\ FetchStart("batch_get_values", "cover")
    /\ UNCHANGED << extVars, b_idx, b_cover, b_classes, b_header, b_name, b_data, b_class_data,
                    b_log, b_extracted, b_errors, b_present, versionVars >>

\* _process_cover_sheet and _validate_cover_sheet end; the class loop starts
CoverDone ==
    /\ b_pc = "cover"
    /\ FetchDone
    /\ IF f_result.kind = "raise"
       THEN /\ b_pc' = "done"
            /\ b_result' = ReturnNone
            /\ UNCHANGED << b_idx, b_cover, b_header, b_name, b_data, b_class_data, b_log, fetchVars >>
       ELSE /\ b_cover' = TRUE
            /\ b_result' = b_result
            /\ ClassBegin(1)
    /\ UNCHANGED << extVars, b_sheet, b_classes, b_extracted, b_errors, b_present, versionVars >>

\* process_budget's own header fetch of the class ends
HdrDone ==
    /\ b_pc = "hdr"
    /\ FetchDone
    /\ IF f_result.kind = "raise"
       THEN /\ Swallow
            /\ b_present' = b_present
       ELSE IF f_result.value = << >>
       THEN /\ SkipClass
            /\ b_present' = b_present
       ELSE /\ b_pc' = "cls_hdr"
            /\ FetchStart("get_range_values", "cls_hdr")
            /\ b_present' = b_present + 1
            /\ UNCHANGED << b_idx, b_header, b_name, b_data, b_class_data, b_log, b_errors >>
    /\ UNCHANGED << extVars, b_sheet, b_cover, b_classes, b_extracted, b_result, versionVars >>

\* _process_class: its header fetch ends, _get_class_name runs
ClsHdrDone ==
    /\ b_pc = "cls_hdr"
    /\ FetchDone
    /\ IF f_result.kind = "raise" THEN Swallow
       ELSE IF f_result.value = << >> THEN SkipClass
       ELSE LET found == ClassNameFromHeader(f_result.value, CurrentClass)
            IN  IF found.kind = "fetch"
                THEN /\ b_pc' = "cls_name"
                     /\ b_header' = f_result.value
                     /\ FetchStart("get_range_values", "cls_name")
                     /\ UNCHANGED << b_idx, b_name, b_data, b_class_data, b_log, b_errors >>
                ELSE IF found.name = << >> THEN SkipClass
                ELSE /\ b_pc' = "cls_data"
                     /\ b_header' = f_result.value
                     /\ b_name' = found.name
                     /\ FetchStart("get_range_values", "cls_data")
                     /\ UNCHANGED << b_idx, b_data, b_class_data, b_log, b_errors >>
    /\ UNCHANGED << extVars, b_sheet, b_cover, b_classes, b_extracted, b_present, b_result, versionVars >>

\* _get_class_name: the fetch of the name cell ends
ClsNameDone ==
    /\ b_pc = "cls_name"
    /\ FetchDone
    /\ IF f_result.kind = "raise" THEN Swallow
       ELSE IF ClassNameFromCell(f_result.value) = << >> THEN SkipClass
       ELSE /\ b_pc' = "cls_data"
            /\ b_name' = ClassNameFromCell(f_result.value)
            /\ FetchStart("get_range_values", "cls_data")
            /\ UNCHANGED << b_idx, b_header, b_data, b_class_data, b_log, b_errors >>
    /\ UNCHANGED << extVars, b_sheet, b_cover, b_classes, b_extracted, b_present, b_result, versionVars >>

\* _process_class: the fetch of the line-item range ends
ClsDataDone ==
    /\ b_pc = "cls_data"
    /\ FetchDone
    /\ IF f_result.kind = "raise" THEN Swallow
       ELSE IF f_result.value = << >> THEN SkipClass
       ELSE /\ b_pc' = "cls_totals"
            /\ b_data' = f_result.value
            /\ FetchStart("get_range_values_batch", "cls_totals")
            /\ UNCHANGED << b_idx, b_header, b_name, b_class_data, b_log, b_errors >>
    /\ UNCHANGED << extVars, b_sheet, b_cover, b_classes, b_extracted, b_present, b_result, versionVars >>

\* _get_class_totals ends; the rows become line items; _process_class returns
ClsTotalsDone ==
    /\ b_pc = "cls_totals"
    /\ FetchDone
    /\ IF f_result.kind = "raise" \/ TotalsRaise(f_result.value, CurrentClass)
       THEN /\ Swallow
            /\ b_extracted' = b_extracted
       ELSE LET line_items == LineItems(b_data, CurrentClass, b_name)
            IN  IF line_items = << >>
                THEN /\ SkipClass
                     /\ b_extracted' = b_extracted
                ELSE /\ b_pc' = "class_data"
                     /\ b_class_data' = BudgetClass(CurrentClass, b_name, line_items)
                     /\ b_extracted' = b_extracted \cup { CurrentClass }
                     /\ UNCHANGED << b_idx, b_header, b_name, b_data, b_log, b_errors, fetchVars >>
    /\ UNCHANGED << extVars, b_sheet, b_cover, b_classes, b_present, b_result, versionVars >>

\* if class_data: classes[class_code] = class_data
StoreClassDropped(classes, c, class_data) == classes
StoreClass(classes, c, class_data) == (c :> class_data) @@ classes

ClassStored ==
    /\ b_pc = "class_data"
    /\ b_classes' = StoreClass(b_classes, CurrentClass, b_class_data)
    /\ ClassDone
    /\ UNCHANGED << extVars, b_sheet, b_cover, b_extracted, b_present, b_result, versionVars >>

\* the spreadsheet service answers the pending call; once MaxPopulated
\* classes had a header, the remaining classes have none (their header fetch
\* may still fail)
FetchSites == { "cover", "hdr", "cls_hdr", "cls_name", "cls_data", "cls_totals" }

RestAbsent == f_site = "hdr" /\ b_present >= MaxPopulated

PayloadsAt ==
    CASE f_site = "cover" -> CoverPayloads
      [] f_site = "hdr" -> IF RestAbsent THEN { << >> } ELSE HeaderPayloads(CurrentClass)
      [] f_site = "cls_hdr" -> HeaderPayloads(CurrentClass)
      [] f_site = "cls_name" -> NamePayloads
      [] f_site = "cls_data" -> DataPayloads
      [] f_site = "cls_totals" -> TotalsPayloads(CurrentClass)
      [] OTHER -> { }

ServiceAnswers ==
    /\ b_pc \in FetchSites
    /\ FetchCallOk(PayloadsAt)
    /\ UNCHANGED << extVars, budgetVars, versionVars >>

ServiceRaises ==
    /\ b_pc \in FetchSites
    /\ FetchCallRaises
    /\ UNCHANGED << extVars, budgetVars, versionVars >>

BackoffSleep ==
    /\ b_pc \in FetchSites
    /\ FetchSleep
    /\ UNCHANGED << extVars, budgetVars, versionVars >>

\* what the budget was assembled from (for the properties only)
ContentOf(classes) == IF DOMAIN classes = { } THEN "content_a" ELSE "content_b"

\* 'upload_id': self._generate_upload_id(spreadsheet_title, title)
UploadIdBegins ==
    /\ b_pc = "upload_id"
    /\ \E d \in Dates :
        VBegin(1, UploadInput(b_sheet.spreadsheet_title, b_sheet.title, d, ContentOf(b_classes)))
    /\ b_pc' = "versioning"
    /\ UNCHANGED << extVars, b_idx, b_sheet, b_cover, b_classes, b_header, b_name, b_data, b_class_data,
                    b_log, b_extracted, b_errors, b_present, b_result, fetchVars >>

UploadIdSaves ==
    /\ b_pc = "versioning"
    /\ VWrite(1)
    /\ UNCHANGED << extVars, budgetVars, fetchVars >>

\* budget_data is combined and returned
BudgetReturned ==
    /\ b_pc = "versioning"
    /\ v_pc[1] \in { "done", "failed" }
    /\ b_pc' = "done"
    /\ b_result' = [ kind |-> "budget",
                     upload_id |-> << v_in[1].file, v_in[1].sheet, v_in[1].date, v_ret[1] >>,
                     version_status |-> "draft",
                     sheet_title |-> b_sheet.title,
                     classes |-> b_classes ]
    /\ UNCHANGED << extVars, b_idx, b_sheet, b_cover, b_classes, b_header, b_name, b_data, b_class_data,
                    b_log, b_extracted, b_errors, b_present, fetchVars, versionVars >>

NextBudget ==
    \/ GetSheetInfo \/ CoverDone \/ HdrDone \/ ClsHdrDone \/ ClsNameDone \/ ClsDataDone
    \/ ClsTotalsDone \/ ClassStored \/ ServiceAnswers \/ ServiceRaises \/ BackoffSleep
    \/ UploadIdBegins \/ UploadIdSaves \/ BudgetReturned

SpecBudget == InitBudget /\ [][NextBudget]_vars

\* the class codes in the order of the mapping
ExpectedOrder ==
    << "A", "B", "C", "D", "E", "F", "G", "H", "I", "J", "K", "L", "M", "M2", "N", "O", "P" >>

ClassSites == { "hdr", "cls_hdr", "cls_name", "cls_data", "cls_totals" }

\* C1: once the class loop has started, process_budget returns a budget
\* whatever classes raise or lack a header: its classes are exactly those
\* that extracted at least one line item,
\* and every class of the mapping was attempted.
C1_FailingClassesSkipped ==
    (b_pc = "done" /\ b_cover) =>
        /\ b_result.kind = "budget"
        /\ DOMAIN b_result.classes = b_extracted
        /\ \A c \in DOMAIN b_result.classes :
            /\ b_result.classes[c].class_code = c
            /\ b_result.classes[c].line_items # << >>
        /\ b_log = ExpectedOrder

C1_Witness ==
    /\ b_pc = "done"
    /\ b_result.kind = "budget"
    /\ b_errors = "swallowed_then_stored"
    /\ b_present = 1
    /\ DOMAIN b_result.classes = { "C" }

\* C2: the cover sheet is done before any class is fetched, and the classes
\* are attempted one at a time in the order A, B, ..., M, M2, N, O, P of the
\* mapping: the attempts so far are always a prefix of that one order.
C2_CoverThenClassesInOrder ==
    /\ IsPrefix(b_log, ExpectedOrder)
    /\ (b_log # << >> => b_cover)
    /\ (f_site = "cover" => b_log = << >>)
    /\ (f_site \in ClassSites =>
            /\ b_cover
            /\ b_log # << >>
            /\ b_idx \in 1..Len(MappingKeys)
            /\ MappingKeys[b_idx] = b_log[Len(b_log)])
    /\ ((b_pc = "done" /\ b_cover) => b_log = ExpectedOrder)

C2_Witness ==
    /\ b_pc = "done"
    /\ b_cover
    /\ b_log = ExpectedOrder
    /\ b_errors = "swallowed"
    /\ DOMAIN b_classes = { "A" }

\* the calls made so far were all answered with a rate-limit signal
AllRateLimited ==
    \A i \in 1..Len(f_calls) :
        f_calls[i].kind = "error" /\ IsRateLimit(f_calls[i].error)

\* the first k calls were rate limited and call k+1 answered with values
SucceededAfter(k) ==
    /\ f_pc = "returned"
    /\ Len(f_calls) = k + 1
    /\ \A i \in 1..k : f_calls[i].kind = "error" /\ IsRateLimit(f_calls[i].error)
    /\ f_calls[k + 1].kind = "values"

\* C3 (as claimed): a fetch whose every call is rate limited sleeps 2, 4, 8,
\* 16 and 32 seconds, one sleep before each of 5 retries, and then raises
\* the underlying error.
C3_FiveRetriesClaimed ==
    (f_site = "standalone" /\ f_pc = "raised" /\ AllRateLimited) =>
        /\ f_sleeps = << 2, 4, 8, 16, 32 >>
        /\ Len(f_calls) = 6
        /\ f_result = Raised(RateLimitError)

\* C4: if the first k calls (k = 0..4) are rate limited and call k+1
\* succeeds, the fetch returns the values of call k+1, that call is the last
\* one, and the sleeps are 2 * 2^i for i = 0..k-1 (6 seconds in all for k = 2).
C4_SucceedsAfterKRateLimits ==
    (f_site = "standalone" /\ f_pc = "returned") =>
        /\ Len(f_calls) \in 1..5
        /\ SucceededAfter(Len(f_calls) - 1)
        /\ f_result = Returned(f_calls[Len(f_calls)].value)
        /\ f_sleeps = SubSeq(<< 2, 4, 8, 16 >>, 1, Len(f_calls) - 1)
        /\ (Len(f_calls) = 3 => SumSeq(f_sleeps) = 6)

C4_Witness ==
    /\ f_site = "standalone"
    /\ SucceededAfter(2)
    /\ SumSeq(f_sleeps) = 6
    /\ f_result = Returned(<< << <<"v2">> >> >>)

\* C5: an error that is not a rate-limit signal is never retried: it is the
\* last call of the fetch, the fetch raises that very error, and no sleep
\* follows it.
C5_OtherErrorNotRetried ==
    f_site = "standalone" =>
        \A i \in 1..Len(f_calls) :
            (f_calls[i].kind = "error" /\ f_calls[i].error \in { NotFoundError, PermissionError }) =>
                /\ i = Len(f_calls)
                /\ f_pc = "raised"
                /\ f_result = Raised(f_calls[i].error)
                /\ Len(f_sleeps) = i - 1

C5_Witness ==
    /\ f_site = "standalone"
    /\ f_pc = "raised"
    /\ Len(f_calls) = 3
    /\ f_calls[3] = CallError(NotFoundError)
    /\ f_sleeps = << 2, 4 >>

HasMajor(entry) == "major_version" \in DOMAIN entry

LexLess(a, b) ==
    \/ a[1] < b[1]
    \/ a[1] = b[1] /\ a[2] < b[2]
    \/ a[1] = b[1] /\ a[2] = b[2] /\ a[3] < b[3]

\* the step in which process p completes a version lookup and saves the file
Saves(p) == v_pc[p] = "read" /\ v_pc'[p] = "done" /\ v_in[p].kind # "legacy"

\* C6: a completed lookup of a key already tracked with a stored hash bumps
\* the patch by exactly 1 (minor, major and hash unchanged) when the hash
\* equals the stored one, and otherwise bumps the minor by exactly 1, resets
\* the patch to 1, keeps the major and stores the new hash.
C6_PatchOrMinorBump ==
    [][ \A key \in DOMAIN store :
          (Saves(1) /\ KeyOf(v_in[1]) = key /\ HasMajor(store[key])) =>
              /\ key \in DOMAIN store'
              /\ store'[key].major_version = store[key].major_version
              /\ IF v_hash[1] = store[key].last_data_hash
                 THEN /\ store'[key].patch_version = store[key].patch_version + 1
                      /\ store'[key].minor_version = store[key].minor_version
                      /\ store'[key].last_data_hash = store[key].last_data_hash
                 ELSE /\ store'[key].minor_version = store[key].minor_version + 1
                      /\ store'[key].patch_version = 1
                      /\ store'[key].last_data_hash = v_hash[1]
              /\ v_ret'[1] = << store'[key].major_version, store'[key].minor_version,
                                store'[key].patch_version >> ]_vars

C6_Witness ==
    \E key \in DOMAIN store :
        /\ HasMajor(store[key])
        /\ store[key].minor_version = 1
        /\ store[key].patch_version = 2
        /\ v_pc[1] = "done"
        /\ v_ret[1] = << 1, 1, 2 >>

\* C7 (as claimed): of two successive completed uploads under one key, the
\* second gets a patch bump if its assembled content equals that of the
\* first, and a minor bump with patch 1 if the content differs.
C7_BumpFollowsContent ==
    \A key \in DOMAIN handed :
        \A i \in 1..(Len(handed[key]) - 1) :
            LET a == handed[key][i]
                b == handed[key][i + 1]
            IN  (a.kind = "upload" /\ b.kind = "upload" /\ a.ok /\ b.ok) =>
                    IF a.content = b.content
                    THEN b.triple = << a.triple[1], a.triple[2], a.triple[3] + 1 >>
                    ELSE b.triple = << a.triple[1], a.triple[2] + 1, 1 >>

\* C8 (as claimed): the version triples handed to the successive runs of one
\* key are strictly increasing in lexicographic order.
C8_TriplesStrictlyIncrease ==
    \A key \in DOMAIN handed :
        \A i, j \in 1..Len(handed[key]) :
            (i < j /\ handed[key][i].kind # "legacy" /\ handed[key][j].kind # "legacy") =>
                LexLess(handed[key][i].triple, handed[key][j].triple)

\* C9 (as claimed): a key's major version is assigned only in the run that
\* sees the key for the first time, which returns minor 0 and patch 1, and
\* no later run changes a stored major version.
C9_MajorOnlyAtFirstSight ==
    [][ /\ \A key \in DOMAIN store : key \in DOMAIN store'
        /\ \A key \in DOMAIN store' :
            HasMajor(store'[key]) =>
                IF key \in DOMAIN store /\ HasMajor(store[key])
                THEN store'[key].major_version = store[key].major_version
                ELSE /\ key \notin DOMAIN store
                     /\ v_ret'[1] = << store'[key].major_version, 0, 1 >> ]_vars

\* C9 (amended): a key's major version is assigned either in the run that
\* sees the key for the first time (returning minor 0, patch 1) or in the run
\* that migrates the key's old-format entry (major 1, minor 0, patch one above
\* the old increment); no later run changes a stored major version.
C9_MajorAtFirstSightOrMigration ==
    [][ /\ \A key \in DOMAIN store : key \in DOMAIN store'
        /\ \A key \in DOMAIN store' :
            HasMajor(store'[key]) =>
                IF key \in DOMAIN store /\ HasMajor(store[key])
                THEN store'[key].major_version = store[key].major_version
                ELSE \/ /\ key \notin DOMAIN store
                        /\ v_ret'[1] = << store'[key].major_version, 0, 1 >>
                     \/ /\ key \in DOMAIN store
                        /\ IsOldFormat(store[key])
                        /\ store'[key].major_version = 1
                        /\ v_ret'[1] = << 1, 0, store[key].current_increment + 1 >> ]_vars

C9_Witness ==
    \E key \in DOMAIN store :
        /\ v_pc[1] = "done"
        /\ v_in[1].kind # "legacy"
        /\ KeyOf(v_in[1]) = key
        /\ key \in DOMAIN v_local[1]
        /\ IsOldFormat(v_local[1][key])
        /\ store[key].major_version = 1
        /\ v_ret[1] = << 1, 0, 2 >>
        /\ \E other \in DOMAIN store : other # key /\ HasMajor(store[other])

\* both processes completed a lookup of the same key, computed from the same
\* stored entry with the same hash
ReadSameEntry(p, q, key) ==
    /\ p # q
    /\ v_pc[p] = "done" /\ v_pc[q] = "done"
    /\ KeyOf(v_in[p]) = key /\ KeyOf(v_in[q]) = key
    /\ key \in DOMAIN v_local[p] /\ key \in DOMAIN v_local[q]
    /\ HasMajor(v_local[p][key])
    /\ v_local[p][key] = v_local[q][key]
    /\ v_hash[p] = v_hash[q]

\* C10: the update is a plain read-modify-write: two invocations that read
\* the same stored entry of one key (same hash) both return the same triple,
\* and the stored version ends up only one step past the entry they read.
C10_LostUpdate ==
    \A p, q \in Procs : \A key \in DOMAIN store :
        ReadSameEntry(p, q, key) =>
            LET e == v_local[p][key]
            IN  /\ v_ret[p] = v_ret[q]
                /\ VersionTriple(store, key) = v_ret[p]
                /\ v_ret[p] \in { << e.major_version, e.minor_version, e.patch_version + 1 >>,
                                  << e.major_version, e.minor_version + 1, 1 >> }

C10_Witness ==
    \E key \in DOMAIN store :
        /\ ReadSameEntry(1, 2, key)
        /\ v_ret[1] = v_ret[2]
        /\ Len(handed[key]) = 3

(***************************************************************************)
(* The budget_sync Lambda handler: the URL is taken from the event, the    *)
(* processor is constructed, process_budget runs, the response is built.   *)
(***************************************************************************)
\* URLs are sequences of tokens; an identifier token stands for a non-empty
\* run of [a-zA-Z0-9-_], a digits token for a non-empty run of [0-9]
SheetsPrefix == "https://docs.google.com/spreadsheets"
IdTokens == { "abc" }
DigitTokens == { "7" }
GoodUrl == << SheetsPrefix, "/d/", "abc", "/edit", "#", "gid=", "7" >>
QueryGidUrl == << SheetsPrefix, "/d/", "abc", "/edit", "?", "gid=", "7" >>
NoGidUrl == << SheetsPrefix, "/d/", "abc" >>
NoIdUrl == << SheetsPrefix, "/d/" >>
ForeignUrl == << "https://example.com", "/d/", "abc", "?", "gid=", "7" >>
NoUrl == << >>

\* re.search(r'/d/([a-zA-Z0-9-_]+)', url)
HasSpreadsheetId(url) ==
    \E i \in 1..(Len(url) - 1) : url[i] = "/d/" /\ url[i + 1] \in IdTokens

\* re.search(r'(?:\?|#)gid=([0-9]+)', url)
HasGidAfter(url, marks) ==
    \E i \in 1..(Len(url) - 2) :
        url[i] \in marks /\ url[i + 1] = "gid=" /\ url[i + 2] \in DigitTokens

\* extract_spreadsheet_details: "ok", or the ValueError it raises
ExtractSpreadsheetDetails(url) ==
    IF ~HasSpreadsheetId(url) THEN "ValueError"
    ELSE IF ~HasGidAfter(url, { "?", "#" }) THEN "ValueError"
    ELSE "ok"

\* JSON texts are sequences of tokens: an object with at most one key, an
\* array, or text that does not parse
JsonObject(key, value) == << "{", key, value, "}" >>
EmptyObject == << "{", "}" >>
JsonArray == << "[", "]" >>
BadJson == << "{" >>

\* json.loads
JsonLoads(text) ==
    IF text = EmptyObject THEN [ kind |-> "dict", value |-> << >> ]
    ELSE IF Len(text) = 4 /\ text[1] = "{" /\ text[4] = "}"
    THEN [ kind |-> "dict", value |-> (text[2] :> text[3]) ]
    ELSE IF text = JsonArray THEN [ kind |-> "list" ]
    ELSE [ kind |-> "JSONDecodeError" ]

\* dict.get(key), None as the empty text
DictGet(d, key) == IF key \in DOMAIN d THEN d[key] ELSE NoUrl

NoBody == << >>

\* the events of the budget_sync handler: a url among the query parameters,
\* a JSON body, both or neither
SyncEvents ==
    [ query : { NoUrl, GoodUrl },
      body : { NoBody, BadJson, JsonArray, EmptyObject,
               JsonObject("url", GoodUrl), JsonObject("url", QueryGidUrl),
               JsonObject("url", NoGidUrl), JsonObject("url", NoIdUrl) } ]

\* lines 57-70: the url of the event, or the exception raised on the way
UrlOfEvent(event) ==
    IF event.query # NoUrl THEN [ kind |-> "ok", url |-> event.query ]
    ELSE IF event.body # NoBody
    THEN LET body == JsonLoads(event.body)
         IN  IF body.kind = "JSONDecodeError" THEN [ kind |-> "JSONDecodeError" ]
             ELSE IF body.kind = "list" THEN [ kind |-> "AttributeError" ]
             ELSE IF DictGet(body.value, "url") = NoUrl THEN [ kind |-> "ValueError" ]
             ELSE [ kind |-> "ok", url |-> DictGet(body.value, "url") ]
    ELSE [ kind |-> "ValueError" ]

\* what BudgetProcessor.__init__ may do: succeed, or re-raise what reading
\* the token file, the credentials or the service construction raised (a
\* token file that is not JSON or lacks fields raises a ValueError)
ConstructorOutcomes == { "ok", "TokenValueError", "OSError", "RefreshError" }

\* JSONDecodeError is a ValueError: the first except clause takes them all
IsValueError(kind) == kind \in { "ValueError", "JSONDecodeError", "TokenValueError" }

\* the except clauses of the handler; the body carries str(e)
SyncErrorResponse(kind) ==
    IF IsValueError(kind)
    THEN [ statusCode |-> 400, status |-> "error", message |-> kind ]
    ELSE [ statusCode |-> 500, status |-> "error", message |-> kind ]

\* lines 91-106
SyncResponseFor(processed_data) ==
    IF processed_data.kind = "budget"
    THEN [ statusCode |-> 200, status |-> "success", message |-> "" ]
    ELSE [ statusCode |-> 500, status |-> "error", message |-> "Failed to process budget." ]

\* lines 54-84: up to the call of process_budget
SyncHandlerBegins ==
    /\ h_pc = "idle"
    /\ \E event \in SyncEvents : \E built \in ConstructorOutcomes :
        LET got == UrlOfEvent(event)
            failure ==
                IF got.kind # "ok" THEN got.kind
                ELSE IF ExtractSpreadsheetDetails(got.url) # "ok"
                THEN ExtractSpreadsheetDetails(got.url)
                ELSE built
        IN  IF failure # "ok"
            THEN /\ h_pc' = "responded"
                 /\ h_event' = event
                 /\ h_response' = SyncErrorResponse(failure)
                 /\ UNCHANGED b_pc
            ELSE /\ h_pc' = "processing"
                 /\ h_event' = NoEvent
                 /\ h_response' = h_response
                 /\ b_pc' = "start"
    /\ UNCHANGED << b_idx, b_sheet, b_cover, b_classes, b_header, b_name, b_data, b_class_data,
                    b_log, b_extracted, b_errors, b_present, b_result, fetchVars, versionVars,
                    h_calls, uploadVars, itemVars, modelVars, lateVars >>

\* lines 85-134: process_budget has returned
SyncHandlerResponds ==
    /\ h_pc = "processing"
    /\ b_pc = "done"
    /\ h_pc' = "responded"
    /\ h_response' = SyncResponseFor(b_result)
    /\ UNCHANGED << h_event, h_calls, budgetVars, fetchVars, versionVars, uploadVars, itemVars,
                    modelVars, lateVars >>

InitSyncHandler == FetchIdle /\ BudgetIdle /\ VersionIdle /\ ExtIdle

NextSyncHandler ==
    \/ SyncHandlerBegins \/ SyncHandlerResponds
    \/ GetSheetInfo \/ CoverDone \/ HdrDone \/ ClsHdrDone \/ ClsNameDone \/ ClsDataDone
    \/ ClsTotalsDone \/ ClassStored \/ ServiceAnswers \/ ServiceRaises \/ BackoffSleep
    \/ UploadIdBegins \/ UploadIdSaves \/ BudgetReturned

SpecSyncHandler == InitSyncHandler /\ [][NextSyncHandler]_vars

\* a fetch of process_budget has ended in an exception
FetchFailed == f_pc = "raised" /\ f_site \in FetchSites

\* C11: an I/O failure while the spreadsheet is read (the metadata call, or a
\* fetch that raised, rate limit retries exhausted included, at the cover
\* sheet or at any class) ends process_budget without a budget, and the
\* handler then answers 500, never a success payload.
C11_IoFailureAnswered500 ==
    [][ /\ (FetchFailed /\ h_pc = "processing")
            => (b_pc' = "done" /\ b_result'.kind = "return_none")
        /\ (h_pc' = "responded" /\ h_pc = "processing" /\ b_result.kind = "return_none")
            => (h_response'.statusCode = 500 /\ h_response'.status # "success") ]_vars

(***************************************************************************)
(* scripts/process_budget.py: process_single_budget reads one budget and   *)
(* uploads its project, budget, detail and validation rows, one call of    *)
(* the warehouse service after the other.                                  *)
(***************************************************************************)
MaxBudgets == 2

\* the rows of one budget in the warehouse, table by table
EmptyTables == [ projects |-> 0, budgets |-> 0, details |-> 0, validations |-> 0 ]

\* what process_budget handed back: the number of rows that prepare_detail_records
\* keeps and the number of validation results in the metadata
ProcessedInputs == [ rows : 0..MaxRows, validation_results : 0..1 ]

CurrentBudget == Len(u_warehouse)

\* the tables of the current budget with n more rows in table t
Inserted(t, n) ==
    [ u_warehouse EXCEPT ![CurrentBudget] = [ @ EXCEPT ![t] = @ + n ] ]

\* except Exception as e: logged, return False
ReturnFalse ==
    /\ u_pc' = "returned"
    /\ u_results' = Append(u_results, FALSE)

\* lines 227-239: the budget is read
ProcessSingleBudgetBegins ==
    /\ u_pc \in { "idle", "returned" }
    /\ Len(u_results) < MaxBudgets
    /\ u_warehouse' = Append(u_warehouse, EmptyTables)
    /\ \/ /\ u_input' = << >>
          /\ ReturnFalse
       \/ /\ \E in \in ProcessedInputs : u_input' = in
          /\ u_pc' = "project"
          /\ u_results' = u_results
    /\ UNCHANGED << fetchVars, budgetVars, versionVars, handlerVars, itemVars, modelVars, lateVars >>

\* lines 241-248: extract_project_info, create_or_update_project
CreateOrUpdateProject ==
    /\ u_pc = "project"
    /\ \/ /\ u_warehouse' = Inserted("projects", 1)
          /\ u_pc' = "budget"
          /\ u_results' = u_results
       \/ /\ u_warehouse' = u_warehouse
          /\ ReturnFalse
    /\ UNCHANGED << u_input, fetchVars, budgetVars, versionVars, handlerVars, itemVars, modelVars, lateVars >>

\* lines 250-252: prepare_budget_record, upload_budget
UploadBudget ==
    /\ u_pc = "budget"
    /\ \/ /\ u_warehouse' = Inserted("budgets", 1)
          /\ u_pc' = "details"
          /\ u_results' = u_results
       \/ /\ u_warehouse' = u_warehouse
          /\ ReturnFalse
    /\ UNCHANGED << u_input, fetchVars, budgetVars, versionVars, handlerVars, itemVars, modelVars, lateVars >>

\* lines 254-256: prepare_detail_records, upload_budget_details (no insert
\* for an empty list)
UploadBudgetDetails ==
    /\ u_pc = "details"
    /\ \/ /\ u_warehouse' = Inserted("details", u_input.rows)
          /\ u_pc' = "validations"
          /\ u_results' = u_results
       \/ /\ u_warehouse' = u_warehouse
          /\ ReturnFalse
    /\ UNCHANGED << u_input, fetchVars, budgetVars, versionVars, handlerVars, itemVars, modelVars, lateVars >>

\* lines 258-266: upload_validations, when the metadata holds results
UploadValidations ==
    /\ u_pc = "validations"
    /\ \/ /\ u_warehouse' = Inserted("validations", u_input.validation_results)
          /\ u_pc' = "save"
          /\ u_results' = u_results
       \/ /\ u_input.validation_results > 0
          /\ u_warehouse' = u_warehouse
          /\ ReturnFalse
    /\ UNCHANGED << u_input, fetchVars, budgetVars, versionVars, handlerVars, itemVars, modelVars, lateVars >>

\* lines 268-299: the results are saved locally, return True
SaveResults ==
    /\ u_pc = "save"
    /\ \/ /\ u_pc' = "returned"
          /\ u_results' = Append(u_results, TRUE)
       \/ ReturnFalse
    /\ UNCHANGED << u_input, u_warehouse, fetchVars, budgetVars, versionVars, handlerVars,
                    itemVars, modelVars, lateVars >>

InitUpload == FetchIdle /\ BudgetIdle /\ VersionIdle /\ ExtIdle

NextUpload ==
    \/ ProcessSingleBudgetBegins \/ CreateOrUpdateProject \/ UploadBudget
    \/ UploadBudgetDetails \/ UploadValidations \/ SaveResults

SpecUpload == InitUpload /\ [][NextUpload]_vars

EmbeddedUrl == << "https://example.com/?u=", SheetsPrefix, "/d/", "abc" >>

\* a url whose gid is not the first query parameter
AmpGidUrl == << SheetsPrefix, "/d/", "abc", "/edit", "?", "x=1", "&", "gid=", "7" >>

BudgetUrls == { NoUrl, GoodUrl, QueryGidUrl, AmpGidUrl, NoGidUrl, NoIdUrl, ForeignUrl, EmbeddedUrl }

NoTask == ""

\* the events: a task_id among the path parameters or none, a JSON body or
\* none, a budget_url key of the event itself or none
WebhookEvents ==
    [ path_task : { NoTask, "123", "error" },
      body : { NoBody, BadJson, JsonArray, EmptyObject, JsonObject("task_id", "123") }
                \cup { JsonObject("budget_url", u) : u \in BudgetUrls },
      budget_url : { NoUrl, GoodUrl } ]

\* re.match(r"^https:\/\/docs\.google\.com\/spreadsheets\/d\/[a-zA-Z0-9-_]+", url),
\* anchored at the start of the url
MatchesAnywhere(url) == HasSpreadsheetId(url) /\ \E i \in 1..Len(url) : url[i] = SheetsPrefix
MatchesBudgetUrl(url) ==
    /\ Len(url) >= 3
    /\ url[1] = SheetsPrefix
    /\ url[2] = "/d/"
    /\ url[3] \in IdTokens

\* extract_budget_url_from_event: the url, or None (the empty text) when it
\* is missing, malformed or anything raised on the way
ExtractBudgetUrlFromEvent(event) ==
    LET body == JsonLoads(event.body)
        budget_url ==
            IF event.body # NoBody
            THEN IF body.kind = "dict" THEN DictGet(body.value, "budget_url") ELSE NoUrl
            ELSE event.budget_url
    IN  IF budget_url = NoUrl THEN NoUrl
        ELSE IF ~MatchesBudgetUrl(budget_url) THEN NoUrl
        ELSE budget_url

NoGid == "None"

\* parse_spreadsheet_url: (spreadsheet_id, gid); the gid is looked for after
\* '?' or '&'
ParseSpreadsheetUrl(url) ==
    IF ~HasSpreadsheetId(url) THEN << "None", NoGid >>
    ELSE LET i == CHOOSE k \in 1..(Len(url) - 1) : url[k] = "/d/" /\ url[k + 1] \in IdTokens
             gid == IF HasGidAfter(url, { "?", "&" })
                    THEN LET j == CHOOSE k \in 1..(Len(url) - 2) :
                                    /\ url[k] \in { "?", "&" }
                                    /\ url[k + 1] = "gid="
                                    /\ url[k + 2] \in DigitTokens
                         IN  url[j + 2]
                    ELSE NoGid
         IN  << url[i + 1], gid >>

\* create_error_response
CreateErrorResponse(status_code, message) ==
    [ statusCode |-> status_code, status |-> "error", message |-> message ]

\* url.startswith("https://docs.google.com/spreadsheets/d/")
StartsWithSheetsAddress(url) == Len(url) >= 2 /\ url[1] = SheetsPrefix /\ url[2] = "/d/"

\* lines 14-36: the budget url is taken from the event and parsed
WebhookReceives ==
    /\ h_pc = "idle"
    /\ \E event \in WebhookEvents :
        /\ h_event' = event
        /\ IF ExtractBudgetUrlFromEvent(event) = NoUrl
           THEN /\ h_pc' = "responded"
                /\ h_response' = CreateErrorResponse(400, "Budget URL not provided in event")
           ELSE /\ h_pc' = "core"
                /\ h_response' = h_response
    /\ UNCHANGED << h_calls, fetchVars, budgetVars, versionVars, uploadVars, itemVars, modelVars, lateVars >>

\* lines 38-57: process_task_from_budget_url, then the response
WebhookProcesses ==
    /\ h_pc = "core"
    /\ h_pc' = "responded"
    /\ LET budget_url == ExtractBudgetUrlFromEvent(h_event)
           parsed == ParseSpreadsheetUrl(budget_url)
           called == Append(h_calls, [ fn |-> "process_task_from_budget_url", arg |-> budget_url ])
       IN  IF ~StartsWithSheetsAddress(budget_url) \/ parsed[1] = "None"
           THEN /\ h_response' = CreateErrorResponse(400, "Invalid budget URL provided.")
                /\ h_calls' = called
           ELSE /\ h_calls' = Append(called, [ fn |-> "create_job_from_task", arg |-> parsed ])
                /\ \/ h_response' = [ statusCode |-> 200, status |-> "success",
                                      message |-> "", spreadsheet_id |-> parsed[1],
                                      gid |-> parsed[2] ]
                   \/ h_response' =
                        CreateErrorResponse(500, "Error processing the provided budget URL.")
    /\ UNCHANGED << h_event, fetchVars, budgetVars, versionVars, uploadVars, itemVars, modelVars, lateVars >>

InitWebhook == FetchIdle /\ BudgetIdle /\ VersionIdle /\ ExtIdle

NextWebhook == WebhookReceives \/ WebhookProcesses

SpecWebhook == InitWebhook /\ [][NextWebhook]_vars

\* the budget_url a request carries: that of its JSON body when it has a
\* body, else the event's own; "invalid" when the body is not a JSON object
CarriedBudgetUrl(event) ==
    IF event.body = NoBody THEN event.budget_url
    ELSE IF JsonLoads(event.body).kind # "dict" THEN "invalid"
    ELSE IF "budget_url" \in DOMAIN JsonLoads(event.body).value
    THEN JsonLoads(event.body).value["budget_url"]
    ELSE NoUrl

\* the url is the Sheets address followed by an ID
WellFormedBudgetUrl(url) ==
    /\ url # "invalid"
    /\ IsPrefix(<< SheetsPrefix, "/d/" >>, url)
    /\ Len(url) >= 3
    /\ url[3] \in IdTokens

InternalFailures == (ConstructorOutcomes \ { "ok" }) \cup { "Failed to process budget." }

\* C14: a failure raised after the request was accepted as well-formed (in
\* the construction of the processor, in process_budget) is answered 500,
\* never 200 or 400.
C14_InternalFailureAnswered500 ==
    (h_pc = "responded" /\ h_response.message \in InternalFailures) =>
        h_response.statusCode = 500

\* the request carries a task_id and no budget_url
CarriesTaskOnly(event) ==
    /\ CarriedBudgetUrl(event) = NoUrl
    /\ \/ event.path_task # NoTask
       \/ event.body = JsonObject("task_id", "123")

\* C15: a request with a task_id and no budget_url goes through
\* process_task and is answered 200 with status success, or 500 when
\* process_task fails.
C15_TaskIdProcessed ==
    (h_pc = "responded" /\ CarriesTaskOnly(h_event)) =>
        /\ \E i \in 1..Len(h_calls) : h_calls[i].fn = "process_task"
        /\ \/ h_response.statusCode = 200 /\ h_response.status = "success"
           \/ h_response.statusCode = 500

(***************************************************************************)
(* _process_class's loop over the rows of a class, _process_line_item and  *)
(* _validate_line_item.  Cells are texts (sequences of tokens), as the     *)
(* sheet's formatted values are.                                           *)
(***************************************************************************)
MaxItemRows == 2

None == << "<None>" >>
Percent == << "28", "%" >>
Dollars == << "$", "7" >>

\* 'if x', 'not x' on a cell or None
Truthy(v) == v # None /\ v # << >>

\* row[i] if len(row) > i else None (i counts from 0)
CellAt(row, i) == IF Len(row) > i THEN row[i + 1] ELSE None

\* str(v).endswith('%')
EndsWithPercent(v) == v # << >> /\ v[Len(v)] = "%"

\* v if v.startswith('$') else f"${v}" if v else None
DollarPrefixed(v) ==
    IF v # None /\ v # << >> /\ v[1] = "$" THEN v
    ELSE IF Truthy(v) THEN << "$" >> \o v
    ELSE None

\* line_item.get(field)
Get(line_item, field) == IF field \in DOMAIN line_item THEN line_item[field] ELSE None

\* the totals of the class as _get_class_totals returns them
ClassTotals(c) ==
    [ class_estimate_subtotal |-> Dollars,
      class_estimate_pnw |-> IF c \in HasPw THEN Dollars ELSE None,
      class_estimate_total |-> Dollars,
      class_actual_subtotal |-> Dollars,
      class_actual_pnw |-> IF c \in HasPw THEN Dollars ELSE None,
      class_actual_total |-> Dollars ]
    @@ (IF c \in HasClientTotal THEN [ class_client_total |-> Dollars ] ELSE << >>)

RateWithoutDays == << "Has estimate rate but missing days" >>

\* line_item.setdefault('validation_messages', []).append(...) in the
\* branches of M2 (not for a percentage rate) and L
BranchMessages(rate, days, spared) ==
    IF Truthy(rate) /\ ~Truthy(days) /\ ~spared
    THEN [ validation_messages |-> << RateWithoutDays >> ]
    ELSE << >>

\* the branch of the class: the columns of the row by name
ClassFields(row, c, class_totals) ==
    IF c = "M2"
    THEN [ estimate_number |-> CellAt(row, 2), estimate_days |-> CellAt(row, 3),
           estimate_rate |-> CellAt(row, 4), estimate_total |-> DollarPrefixed(CellAt(row, 5)),
           actual_total |-> DollarPrefixed(CellAt(row, 6)) ]
         @@ BranchMessages(CellAt(row, 4), CellAt(row, 3), EndsWithPercent(CellAt(row, 4)))
    ELSE IF c = "L"
    THEN [ estimate_days |-> CellAt(row, 2), estimate_rate |-> CellAt(row, 3),
           estimate_total |-> DollarPrefixed(CellAt(row, 4)), actual_hours |-> CellAt(row, 5),
           actual_total |-> DollarPrefixed(CellAt(row, 6)) ]
         @@ BranchMessages(CellAt(row, 3), CellAt(row, 2), FALSE)
         @@ (IF "class_client_total" \in DOMAIN class_totals
             THEN [ class_client_total |-> class_totals.class_client_total ] ELSE << >>)
    ELSE IF c = "K"
    THEN [ estimate_hours |-> CellAt(row, 2), estimate_rate |-> CellAt(row, 3),
           estimate_total |-> CellAt(row, 4), actual_hours |-> CellAt(row, 5),
           actual_total |-> CellAt(row, 6) ]
    ELSE IF c = "A"
    THEN [ estimate_days |-> CellAt(row, 2), estimate_rate |-> CellAt(row, 3),
           estimate_total |-> CellAt(row, 4), actual_days |-> CellAt(row, 5),
           actual_rate |-> CellAt(row, 6), actual_total |-> CellAt(row, 7) ]
    ELSE IF c = "B"
    THEN [ estimate_days |-> CellAt(row, 2), estimate_rate |-> CellAt(row, 3),
           estimate_ot_rate |-> CellAt(row, 4), estimate_ot_hours |-> CellAt(row, 5),
           estimate_total |-> CellAt(row, 6), actual_days |-> CellAt(row, 7),
           actual_rate |-> CellAt(row, 8), actual_total |-> CellAt(row, 9) ]
    ELSE IF c \in { "F", "H" }
    THEN [ estimate_number |-> CellAt(row, 2), estimate_rate |-> CellAt(row, 3),
           estimate_total |-> CellAt(row, 4), actual_total |-> CellAt(row, 5) ]
    ELSE IF c = "G"
    THEN [ estimate_days |-> CellAt(row, 2), estimate_rate |-> CellAt(row, 3),
           estimate_total |-> CellAt(row, 4), actual_total |-> CellAt(row, 5) ]
    ELSE IF c = "O"
    THEN [ estimate_hours |-> CellAt(row, 2), estimate_rate |-> CellAt(row, 3),
           estimate_total |-> CellAt(row, 4), actual_hours |-> CellAt(row, 5),
           actual_total |-> CellAt(row, 6) ]
         @@ (IF "class_client_total" \in DOMAIN class_totals
             THEN [ class_client_total |-> class_totals.class_client_total ] ELSE << >>)
    ELSE [ estimate_number |-> CellAt(row, 2), estimate_days |-> CellAt(row, 3),
           estimate_rate |-> CellAt(row, 4), estimate_total |-> CellAt(row, 5),
           actual_total |-> CellAt(row, 6) ]

\* messages.append(...) when the condition holds
AppendIf(messages, condition, message) ==
    IF condition THEN Append(messages, message) ELSE messages

\* 'required_fields' of every class mapping
RequiredFields == << "line_number", "description" >>

\* the loop over required_fields
RECURSIVE MissingRequired(_, _)
MissingRequired(line_item, fields) ==
    IF fields = << >> THEN << >>
    ELSE AppendIf(<< >>, ~Truthy(Get(line_item, Head(fields))),
                  << "Missing required field: ", Head(fields) >>)
         \o MissingRequired(line_item, Tail(fields))

\* the rate and days check of _validate_line_item
EstimateRateRuleOff(line_item, c) == FALSE
EstimateRateRule(line_item, c) ==
    Truthy(Get(line_item, "estimate_rate")) /\ ~Truthy(Get(line_item, "estimate_days"))

\* _validate_line_item: the messages of the line item
ValidateLineItem(line_item, c) ==
    LET m1 == MissingRequired(line_item, RequiredFields)
        m2 == AppendIf(m1, EstimateRateRule(line_item, c), RateWithoutDays)
        m3 == AppendIf(m2, Truthy(Get(line_item, "actual_rate"))
                            /\ ~Truthy(Get(line_item, "actual_days")),
                       << "Has actual rate but missing days" >>)
        m4 == AppendIf(m3, c = "B" /\ Truthy(Get(line_item, "estimate_ot_rate"))
                            /\ ~Truthy(Get(line_item, "estimate_ot_hours")),
                       << "Has OT rate but missing hours" >>)
    IN  AppendIf(m4, c = "B" /\ Truthy(Get(line_item, "estimate_ot_hours"))
                      /\ ~Truthy(Get(line_item, "estimate_ot_rate")),
                 << "Has OT hours but missing rate" >>)

NoLineItem == [ none |-> TRUE ]

\* 'if not line_item[...] or not line_item[...]: return None'
SkipsRowNumberOnly(line_item) == ~Truthy(line_item.line_item_number)
SkipsRow(line_item) ==
    ~Truthy(line_item.line_item_number) \/ ~Truthy(line_item.line_item_description)

\* _process_line_item: the line item of the row, or None
ProcessLineItem(row, c, class_totals) ==
    IF Len(row) < 2 THEN NoLineItem
    ELSE LET head == [ line_item_number |-> row[1], line_item_description |-> row[2] ]
         IN  IF SkipsRow(head) THEN NoLineItem
             ELSE LET line_item ==
                          [ k \in { "class_estimate_subtotal", "class_estimate_pnw",
                                    "class_estimate_total", "class_actual_subtotal",
                                    "class_actual_pnw", "class_actual_total" } |->
                              class_totals[k] ]
                          @@ ClassFields(row, c, class_totals) @@ head
                      validation_messages == ValidateLineItem(line_item, c)
                  IN  [ validation_status |->
                            IF validation_messages = << >> THEN "valid" ELSE "warning",
                        validation_messages |-> validation_messages ]
                      @@ line_item

\* the loop of _process_class: empty and one-cell rows are skipped, the
\* line items that are not None are collected
RECURSIVE ProcessRows(_, _, _)
ProcessRows(rows, c, class_totals) ==
    IF rows = << >> THEN << >>
    ELSE LET row == Head(rows)
             rest == ProcessRows(Tail(rows), c, class_totals)
         IN  IF row = << >> \/ Len(row) < 2 THEN rest
             ELSE IF ProcessLineItem(row, c, class_totals) = NoLineItem THEN rest
             ELSE << ProcessLineItem(row, c, class_totals) >> \o rest

\* the rows a data range may hold: empty rows, rows of one or two cells,
\* and rows with the estimate columns filled in various ways, with or
\* without the columns to their right
Filled == << "7" >>
RowTails ==
    { << >>,
      << Filled, Filled, Filled, Filled, Filled >>,
      << << >>, Filled, << >>, Filled, << >> >>,
      << Filled, << >>, Filled, << >>, << >> >> }
ShortRows ==
    { << >>, << << "1" >> >>, << << >> >> }
    \cup { << n, d >> : n \in { << >>, << "1" >> }, d \in { << >>, << "crew" >> } }
FullRows ==
    { << n, d, c3, c4, c5 >> \o tail :
        n \in { << >>, << "1" >> }, d \in { << >>, << "crew" >> },
        c3 \in { << >>, Filled }, c4 \in { << >>, Filled, Percent },
        c5 \in { << >>, Filled, Percent }, tail \in RowTails }
SmallRows ==
    ShortRows \cup { << << "1" >>, << "crew" >>, << >>, Filled, Percent >>,
                     << << "2" >>, << "cast" >>, Filled, Filled, Filled >>,
                     << << >>, << "crew" >>, Filled, Filled, Filled >> }
ItemDataValues ==
    { << row >> : row \in FullRows } \cup UNION { [ 1..n -> SmallRows ] : n \in 0..MaxItemRows }

ClassCodes == { MappingKeys[i] : i \in 2..Len(MappingKeys) }

\* data_values of a class have been fetched
RowsFetched ==
    /\ li_pc = "idle"
    /\ \E c \in ClassCodes : \E rows \in ItemDataValues :
        /\ li_class' = c
        /\ li_rows' = rows
    /\ li_pc' = "rows"
    /\ UNCHANGED << li_items, fetchVars, budgetVars, versionVars, handlerVars, uploadVars,
                    modelVars, lateVars >>

\* the loop over data_values has run
RowsProcessed ==
    /\ li_pc = "rows"
    /\ li_items' = ProcessRows(li_rows, li_class, ClassTotals(li_class))
    /\ li_pc' = "done"
    /\ UNCHANGED << li_class, li_rows, fetchVars, budgetVars, versionVars, handlerVars,
                    uploadVars, modelVars, lateVars >>

InitLineItems == FetchIdle /\ BudgetIdle /\ VersionIdle /\ ExtIdle

NextLineItems == RowsFetched \/ RowsProcessed

SpecLineItems == InitLineItems /\ [][NextLineItems]_vars

\* the rows with a line number and a description, as (number, description)
RECURSIVE Complete(_)
Complete(rows) ==
    IF rows = << >> THEN << >>
    ELSE IF Len(Head(rows)) >= 2 /\ Head(rows)[1] # << >> /\ Head(rows)[2] # << >>
         THEN << << Head(rows)[1], Head(rows)[2] >> >> \o Complete(Tail(rows))
         ELSE Complete(Tail(rows))

\* C16: every line item has a non-empty line number and a non-empty
\* description, and the line items are exactly the rows that have both, in
\* their order: a row lacking either is dropped.
C16_LineItemsComplete ==
    li_pc = "done" =>
        /\ \A j \in 1..Len(li_items) :
            /\ li_items[j].line_item_number \notin { None, << >> }
            /\ li_items[j].line_item_description \notin { None, << >> }
        /\ [ j \in 1..Len(li_items) |->
                << li_items[j].line_item_number, li_items[j].line_item_description >> ]
            = Complete(li_rows)

C16_Witness ==
    /\ li_pc = "done"
    /\ Len(li_rows) = 2
    /\ li_rows[1] = << << "1" >>, << >> >>
    /\ Len(li_rows[2]) = 5
    /\ li_rows[2][1] = << "2" >>
    /\ Len(li_items) = 1
    /\ li_items[1].line_item_number = << "2" >>

\* the messages of a line item, as a set
MessagesOf(line_item) ==
    { line_item.validation_messages[k] : k \in 1..Len(line_item.validation_messages) }

\* a rate without its days, or an overtime rate without its hours or the
\* reverse
Inconsistent(line_item, c) ==
    \/ Truthy(Get(line_item, "estimate_rate")) /\ ~Truthy(Get(line_item, "estimate_days"))
    \/ Truthy(Get(line_item, "actual_rate")) /\ ~Truthy(Get(line_item, "actual_days"))
    \/ c = "B" /\ Truthy(Get(line_item, "estimate_ot_rate"))
               /\ ~Truthy(Get(line_item, "estimate_ot_hours"))
    \/ c = "B" /\ Truthy(Get(line_item, "estimate_ot_hours"))
               /\ ~Truthy(Get(line_item, "estimate_ot_rate"))

\* C17: a 'Missing required field' message is produced only for a required
\* field that is missing: a line item, which has its line number and its
\* description, carries no such message, and when it has no rate/days or
\* overtime inconsistency its messages are empty and its status is 'valid'.
C17_RequiredFieldMessagesOnlyWhenMissing ==
    li_pc = "done" =>
        \A j \in 1..Len(li_items) :
            /\ \A m \in MessagesOf(li_items[j]) : m[1] # "Missing required field: "
            /\ ~Inconsistent(li_items[j], li_class) =>
                  /\ li_items[j].validation_messages = << >>
                  /\ li_items[j].validation_status = "valid"

\* C18: in a class other than M2 every row with a line number and a
\* description is kept, and a line item with an estimate rate and no estimate
\* days carries 'Has estimate rate but missing days' and the status
\* 'warning'.
C18_RateWithoutDaysWarned ==
    (li_pc = "done" /\ li_class # "M2") =>
        /\ Len(li_items) = Len(Complete(li_rows))
        /\ \A j \in 1..Len(li_items) :
              (Truthy(Get(li_items[j], "estimate_rate"))
                  /\ ~Truthy(Get(li_items[j], "estimate_days"))) =>
                  /\ RateWithoutDays \in MessagesOf(li_items[j])
                  /\ li_items[j].validation_status = "warning"

C18_Witness ==
    /\ li_pc = "done"
    /\ li_class = "C"
    /\ li_rows = << << << "1" >>, << "crew" >>, << >>, << >>, Filled >> >>
    /\ Len(li_items) = 1
    /\ li_items[1].estimate_rate = Filled
    /\ li_items[1].estimate_days = << >>
    /\ RateWithoutDays \in MessagesOf(li_items[1])
    /\ li_items[1].validation_status = "warning"

\* C19: in class M2 a line item whose estimate rate ends in '%' and whose
\* estimate days are absent carries no 'Has estimate rate but missing days'
\* message.
C19_PercentRateSpared ==
    (li_pc = "done" /\ li_class = "M2") =>
        \A j \in 1..Len(li_items) :
            (Truthy(li_items[j].estimate_rate) /\ EndsWithPercent(li_items[j].estimate_rate)
                /\ ~Truthy(li_items[j].estimate_days)) =>
                RateWithoutDays \notin MessagesOf(li_items[j])

(***************************************************************************)
(* models/budget.py: BudgetClass and Budget validate themselves when they  *)
(* are constructed.  bg_classes is the dict 'classes' in insertion order,  *)
(* each entry with its key.                                                *)
(***************************************************************************)
MaxClasses == 2

ClassKeys == { "A", "B", "C" }

\* line_items of a class: none, the dicts _process_class collects, or
\* BudgetLineItem objects as the field is declared
LineItemLists == { "empty", "dicts", "objects" }

\* BudgetClass._validate on a fresh ValidationResult
BudgetClassValidate(class_code, class_name, line_items) ==
    [ is_valid |-> ~(class_code = "" \/ class_name = ""),
      messages |->
          (IF class_code = "" \/ class_name = "" THEN << << "Missing code or name" >> >>
           ELSE << >>)
          \o (IF line_items = "empty" THEN << << "No line items found" >> >> ELSE << >>) ]

\* BudgetClass(...): the class as constructed
BudgetClassOf(class_code, class_name, line_items) ==
    [ class_code |-> class_code, class_name |-> class_name, line_items |-> line_items,
      validation |-> BudgetClassValidate(class_code, class_name, line_items) ]

\* item.get('actual', 0) on the first line item raises AttributeError when
\* the items are BudgetLineItem objects
ValidateClassRaises(budget_class) == budget_class.line_items = "objects"

\* Budget._validate_class: the summary of a class
ValidateClassAllValid(budget_class) ==
    [ is_valid |-> TRUE, messages |-> budget_class.validation.messages ]
ValidateClass(budget_class) ==
    [ is_valid |-> budget_class.validation.is_valid,
      messages |-> budget_class.validation.messages ]

\* f"Class {code}: {msg}" for msg in messages
RECURSIVE Prefixed(_, _)
Prefixed(code, messages) ==
    IF messages = << >> THEN << >>
    ELSE << << "Class ", code, ": " >> \o Head(messages) >> \o Prefixed(code, Tail(messages))

\* the loop of Budget._validate over classes.items(), from the validation
\* reached so far
RECURSIVE ValidateClasses(_, _)
ValidateClasses(classes, validation) ==
    IF classes = << >> THEN validation
    ELSE LET class_summary == ValidateClass(Head(classes).budget_class)
         IN  ValidateClasses(Tail(classes),
                 [ is_valid |-> validation.is_valid /\ class_summary.is_valid,
                   messages |-> validation.messages
                                \o Prefixed(Head(classes).code, class_summary.messages) ])

\* Budget._validate
BudgetValidate(classes) ==
    IF classes = << >>
    THEN [ is_valid |-> FALSE, messages |-> << << "No budget classes found" >> >> ]
    ELSE ValidateClasses(classes, [ is_valid |-> TRUE, messages |-> << >> ])

\* a BudgetClass is constructed and stored in the dict under a new key
BudgetClassCreated ==
    /\ bg_pc = "idle"
    /\ Len(bg_classes) < MaxClasses
    /\ \E code \in ClassKeys : \E class_code \in { code, "" } :
       \E class_name \in { "", "CREW" } : \E line_items \in LineItemLists :
        /\ \A i \in 1..Len(bg_classes) : bg_classes[i].code # code
        /\ bg_classes' = Append(bg_classes,
               [ code |-> code,
                 budget_class |-> BudgetClassOf(class_code, class_name, line_items) ])
    /\ UNCHANGED << bg_pc, bg_validation, fetchVars, budgetVars, versionVars, handlerVars,
                    uploadVars, itemVars, lateVars >>

\* Budget(...) over the classes: __post_init__ runs _validate
BudgetCreated ==
    /\ bg_pc = "idle"
    /\ \A i \in 1..Len(bg_classes) : ~ValidateClassRaises(bg_classes[i].budget_class)
    /\ bg_pc' = "done"
    /\ bg_validation' = BudgetValidate(bg_classes)
    /\ UNCHANGED << bg_classes, fetchVars, budgetVars, versionVars, handlerVars, uploadVars,
                    itemVars, lateVars >>

\* Budget(...) fails with the AttributeError of _validate_class
BudgetCreationRaises ==
    /\ bg_pc = "idle"
    /\ \E i \in 1..Len(bg_classes) : ValidateClassRaises(bg_classes[i].budget_class)
    /\ bg_pc' = "raised"
    /\ UNCHANGED << bg_classes, bg_validation, fetchVars, budgetVars, versionVars,
                    handlerVars, uploadVars, itemVars, lateVars >>

InitModels == FetchIdle /\ BudgetIdle /\ VersionIdle /\ ExtIdle

NextModels == BudgetClassCreated \/ BudgetCreated \/ BudgetCreationRaises

SpecModels == InitModels /\ [][NextModels]_vars

\* some class lacks its code or its name
SomeClassIncomplete ==
    \E i \in 1..Len(bg_classes) :
        bg_classes[i].budget_class.class_code = "" \/ bg_classes[i].budget_class.class_name = ""

\* the classes' own messages, each with the prefix of its class, in class
\* order
RECURSIVE ClassMessages(_)
ClassMessages(classes) ==
    IF classes = << >> THEN << >>
    ELSE [ k \in 1..Len(Head(classes).budget_class.validation.messages) |->
             << "Class ", Head(classes).code, ": " >>
             \o Head(classes).budget_class.validation.messages[k] ]
         \o ClassMessages(Tail(classes))

MaxReconItems == 2

\* the tolerance of a reconciliation, one cent
Tolerance == 1

ReconDays == { 0, 1, 2 }
ReconRates == { 0, 100, 250 }
ReconItems == [ estimate_days : ReconDays, estimate_rate : ReconRates ]

\* the sum of the per-line totals days x rate
RECURSIVE ComputedSubtotal(_)
ComputedSubtotal(line_items) ==
    IF line_items = << >> THEN 0
    ELSE Head(line_items).estimate_days * Head(line_items).estimate_rate
         + ComputedSubtotal(Tail(line_items))

\* the inputs: the line items of a class and the subtotal its cell states
ReconInputs ==
    UNION { { [ line_items |-> items, stated |-> ComputedSubtotal(items) + d ] :
                d \in { 0, 1, 2, 150 } }
            \cup { [ line_items |-> items, stated |-> ComputedSubtotal(items) - d ] :
                d \in { d \in { 1, 2 } : d <= ComputedSubtotal(items) } } :
            items \in UNION { [ 1..n -> ReconItems ] : n \in 1..MaxReconItems } }

\* BudgetClass(class_code=..., estimate_subtotal=clean_money_value(...),
\* line_items=line_items): the totals are those the sheet states, the
\* validation is that of BudgetClass._validate
AssembledClass(class_code, class_name, input) ==
    [ class_code |-> class_code, class_name |-> class_name,
      estimate_subtotal |-> input.stated,
      line_items |-> input.line_items,
      validation |-> BudgetClassValidate(class_code, class_name, "dicts") ]

\* the line items of a class and its totals have been read
ClassRead ==
    /\ rc_pc = "idle"
    /\ rc_pc' = "read"
    /\ rc_input' \in ReconInputs
    /\ UNCHANGED << rc_class, OtherThanRecon >>

\* lines 1459-1470: the BudgetClass is returned
ClassAssembled ==
    /\ rc_pc = "read"
    /\ rc_pc' = "done"
    /\ \E class_name \in { "", "CREW" } :
        rc_class' = AssembledClass("A", class_name, rc_input)
    /\ UNCHANGED << rc_input, OtherThanRecon >>

InitRecon == FetchIdle /\ BudgetIdle /\ VersionIdle /\ ExtIdle

NextRecon == ClassRead \/ ClassAssembled

SpecRecon == InitRecon /\ [][NextRecon]_vars

\* the distance of two amounts
Distance(a, b) == IF a >= b THEN a - b ELSE b - a

\* a message other than those of a missing code or name and of a class
\* without line items
ReportsMismatch(messages) ==
    \E k \in 1..Len(messages) :
        messages[k] \notin { << "Missing code or name" >>, << "No line items found" >> }

\* C21: a class is built whatever its totals; when the sum of its lines'
\* computed totals differs from the stated subtotal by more than the
\* tolerance its validation reports the mismatch, and when they agree within
\* the tolerance it reports none.
C21_MismatchReported ==
    rc_pc = "done" =>
        (ReportsMismatch(rc_class.validation.messages)
            <=> Distance(ComputedSubtotal(rc_class.line_items), rc_class.estimate_subtotal)
                    > Tolerance)

(***************************************************************************)
(* bq_uploader.format_line_items_for_bq over the data of a processed       *)
(* budget: the dict process_budget returns (its classes hold the line      *)
(* items) or the flat dict of tests/test_bq_uploader.py.                   *)
(***************************************************************************)
MaxFlatItems == 2

\* d.get(key, default)
GetOr(d, key, default) == IF key \in DOMAIN d THEN d[key] ELSE default

\* '; '.join(messages)
RECURSIVE JoinMessages(_)
JoinMessages(messages) ==
    IF messages = << >> THEN << >>
    ELSE IF Len(messages) = 1 THEN << messages[1] >>
    ELSE << messages[1], "; " >> \o JoinMessages(Tail(messages))

\* the line items _process_line_item emits, by number, with their messages
FlatItems ==
    { [ line_item_number |-> n, line_item_description |-> "crew",
        validation_status |-> IF m = << >> THEN "valid" ELSE "warning",
        validation_messages |-> m ] :
        n \in { "1", "2" }, m \in { << >>, << "Has estimate rate but missing days" >> } }

ItemLists == UNION { [ 1..n -> FlatItems ] : n \in 0..MaxFlatItems }

\* the dict process_budget returns: upload_id, version_status, classes
AssembledData ==
    { [ upload_id |-> "budget_123", version_status |-> "draft", classes |-> << >> ] }
    \cup { [ upload_id |-> "budget_123", version_status |-> "draft",
             classes |-> << [ class_code |-> "A", line_items |-> a ] >> ] : a \in ItemLists }
    \cup { [ upload_id |-> "budget_123", version_status |-> "draft",
             classes |-> << [ class_code |-> "A", line_items |-> a ],
                            [ class_code |-> "B", line_items |-> b ] >> ] :
             a \in ItemLists, b \in ItemLists }

\* the dict of the test: upload_id and a flat list line_items, each item
\* with its class_code
WithClassCode(items, class_code) ==
    [ i \in 1..Len(items) |-> [ class_code |-> class_code ] @@ items[i] ]
FlatData ==
    { [ upload_id |-> "budget_123", line_items |-> WithClassCode(a, c) ] :
        a \in ItemLists, c \in { "A", "B" } }

\* the row of one item (lines 77-88)
DetailRow(budget_id, item) ==
    [ budget_id |-> budget_id,
      class_code |-> GetOr(item, "class_code", ""),
      line_item_number |-> GetOr(item, "line_item_number", ""),
      line_item_description |-> GetOr(item, "line_item_description", ""),
      estimate_days |-> GetOr(item, "estimate_days", ""),
      estimate_rate |-> GetOr(item, "estimate_rate", ""),
      estimate_total |-> GetOr(item, "estimate_total", ""),
      actual_total |-> GetOr(item, "actual_total", ""),
      validation_status |-> GetOr(item, "validation_status", ""),
      validation_messages |-> JoinMessages(GetOr(item, "validation_messages", << >>)) ]

\* format_line_items_for_bq
FormatLineItemsForBq(processed_data) ==
    LET budget_id == GetOr(processed_data, "upload_id", "")
        line_items == GetOr(processed_data, "line_items", << >>)
    IN  [ i \in 1..Len(line_items) |-> DetailRow(budget_id, line_items[i]) ]

\* a processed budget is at hand
BudgetProcessed ==
    /\ fl_pc = "idle"
    /\ fl_pc' = "processed"
    /\ fl_data' \in AssembledData \cup FlatData
    /\ UNCHANGED << fl_rows, OtherThanFlat >>

\* it is flattened
LineItemsFormatted ==
    /\ fl_pc = "processed"
    /\ fl_pc' = "done"
    /\ fl_rows' = FormatLineItemsForBq(fl_data)
    /\ UNCHANGED << fl_data, OtherThanFlat >>

InitFlat == FetchIdle /\ BudgetIdle /\ VersionIdle /\ ExtIdle

NextFlat == BudgetProcessed \/ LineItemsFormatted

SpecFlat == InitFlat /\ [][NextFlat]_vars

\* the line items of every class of the data, in order
RECURSIVE ItemsOfClasses(_)
ItemsOfClasses(classes) ==
    IF classes = << >> THEN << >>
    ELSE Head(classes).line_items \o ItemsOfClasses(Tail(classes))

ItemsOfData(data) ==
    IF "classes" \in DOMAIN data THEN ItemsOfClasses(data.classes) ELSE data.line_items

\* C22: the rows are one per line item of every class of the budget, in
\* order, each with the budget's upload ID as budget_id.
C22_OneRowPerLineItem ==
    fl_pc = "done" =>
        /\ Len(fl_rows) = Len(ItemsOfData(fl_data))
        /\ \A i \in 1..Len(fl_rows) :
            /\ i <= Len(ItemsOfData(fl_data))
                => fl_rows[i].line_item_number = ItemsOfData(fl_data)[i].line_item_number
            /\ fl_rows[i].budget_id = fl_data.upload_id

(***************************************************************************)
(* CoverSheetProcessor._parse_cell_ref.  A label is a sequence of          *)
(* characters, letters first.                                              *)
(***************************************************************************)
MaxLetters == 2

Alphabet ==
    << "A", "B", "C", "D", "E", "F", "G", "H", "I", "J", "K", "L", "M", "N", "O", "P", "Q",
       "R", "S", "T", "U", "V", "W", "X", "Y", "Z" >>
Numerals == << "0", "1", "2", "3", "4", "5", "6", "7", "8", "9" >>

\* c.isalpha()
IsAlpha(c) == \E i \in 1..Len(Alphabet) : Alphabet[i] = c

\* ord(c) - ord('A'), ord(c) - ord('0')
OrdFromA(c) == (CHOOSE i \in 1..Len(Alphabet) : Alphabet[i] = c) - 1
OrdFromZero(c) == (CHOOSE i \in 1..Len(Numerals) : Numerals[i] = c) - 1

\* the loop over the characters, from the col and row reached so far
RECURSIVE ParseLoop(_, _, _)
ParseLoop(cell_ref, col, row) ==
    IF cell_ref = << >> THEN << row - 1, col >>
    ELSE IF IsAlpha(Head(cell_ref))
    THEN ParseLoop(Tail(cell_ref), col * 26 + OrdFromA(Head(cell_ref)), row)
    ELSE ParseLoop(Tail(cell_ref), col, row * 10 + OrdFromZero(Head(cell_ref)))

\* _parse_cell_ref: (row, col), both 0-based
ParseCellRef(cell_ref) == ParseLoop(cell_ref, 0, 0)

\* the labels: one to MaxLetters letters, then a row number without
\* leading zero
ColumnLetters == UNION { [ 1..n -> { Alphabet[i] : i \in 1..26 } ] : n \in 1..MaxLetters }
RowDigits == { << "1" >>, << "9" >>, << "1", "0" >>, << "2", "5" >> }
CellLabels == { letters \o digits : letters \in ColumnLetters, digits \in RowDigits }

\* a label of the mapping is looked up
LabelGiven ==
    /\ cr_pc = "idle"
    /\ cr_pc' = "given"
    /\ cr_label' \in CellLabels
    /\ UNCHANGED << cr_result, OtherThanCell >>

\* it is parsed
LabelParsed ==
    /\ cr_pc = "given"
    /\ cr_pc' = "done"
    /\ cr_result' = ParseCellRef(cr_label)
    /\ UNCHANGED << cr_label, OtherThanCell >>

InitCell == FetchIdle /\ BudgetIdle /\ VersionIdle /\ ExtIdle

NextCell == LabelGiven \/ LabelParsed

SpecCell == InitCell /\ [][NextCell]_vars

\* the letters of a label and its digits
LettersOf(label) == SelectSeq(label, IsAlpha)
NotAlpha(c) == ~IsAlpha(c)
DigitsOf(label) == SelectSeq(label, NotAlpha)

\* the column of a sequence of letters, A = 0, ..., Z = 25, AA = 26, ...
RECURSIVE ColumnNumber(_)
ColumnNumber(letters) ==
    IF letters = << >> THEN 0
    ELSE ColumnNumber(SubSeq(letters, 1, Len(letters) - 1)) * 26
         + OrdFromA(letters[Len(letters)]) + 1
ColumnIndex(letters) == ColumnNumber(letters) - 1

\* the letters of a column index, the inverse of ColumnIndex
RECURSIVE ColumnLettersOf(_)
ColumnLettersOf(number) ==
    IF number = 0 THEN << >>
    ELSE ColumnLettersOf((number - 1) \div 26) \o << Alphabet[((number - 1) % 26) + 1] >>

\* the digits of a row number
RECURSIVE NumeralsOf(_)
NumeralsOf(n) ==
    IF n < 10 THEN << Numerals[n + 1] >>
    ELSE NumeralsOf(n \div 10) \o << Numerals[(n % 10) + 1] >>

\* formatAddress: the label of a (row, col) pair, both 0-based
FormatAddress(pair) == ColumnLettersOf(pair[2] + 1) \o NumeralsOf(pair[1] + 1)

\* C23: the letters are read as a base-26 column with A = 0, ..., Z = 25,
\* AA = 26 and the digits as a 1-based row made 0-based; no other label has
\* the same (row, column) pair, and formatting the pair gives the label back.
C23_CellRefRoundTrip ==
    cr_pc = "done" =>
        /\ cr_result[2] = ColumnIndex(LettersOf(cr_label))
        /\ \A other \in CellLabels : other # cr_label => ParseCellRef(other) # cr_result
        /\ FormatAddress(cr_result) = cr_label

(***************************************************************************)
(* The money normalizers: clean_money_value of _process_class and          *)
(* _parse_number of scripts/process_budget.py.  A text is a sequence of    *)
(* tokens; amounts are counted in 1/10000.                                 *)
(***************************************************************************)
\* the groups of digits of the texts, with their values
DigitGroups == { "0", "00", "1", "5", "28", "56", "234" }
GroupValue(t) ==
    CASE t = "0" -> 0 [] t = "00" -> 0 [] t = "1" -> 1 [] t = "5" -> 5
      [] t = "28" -> 28 [] t = "56" -> 56 [] t = "234" -> 234
GroupLength(t) == IF t \in { "0", "1", "5" } THEN 1 ELSE IF t = "234" THEN 3 ELSE 2
Pow10(n) == CASE n = 0 -> 1 [] n = 1 -> 10 [] n = 2 -> 100 [] n = 3 -> 1000 [] n = 4 -> 10000

\* the unit of an amount
Scale == Pow10(4)

\* s.strip()
RECURSIVE StripLeft(_)
StripLeft(s) == IF s # << >> /\ Head(s) = " " THEN StripLeft(Tail(s)) ELSE s
RECURSIVE StripRight(_)
StripRight(s) ==
    IF s # << >> /\ s[Len(s)] = " " THEN StripRight(SubSeq(s, 1, Len(s) - 1)) ELSE s
StripText(s) == StripRight(StripLeft(s))

\* s.replace(t, '')
Remove(s, t) == LET Keep(x) == x # t IN SelectSeq(s, Keep)

\* s.rstrip('%')
RECURSIVE RStripPercent(_)
RStripPercent(s) ==
    IF s # << >> /\ s[Len(s)] = "%" THEN RStripPercent(SubSeq(s, 1, Len(s) - 1)) ELSE s

\* the value of a run of digit groups read as one integer
RECURSIVE IntegerOf(_)
IntegerOf(groups) ==
    IF groups = << >> THEN 0
    ELSE IntegerOf(SubSeq(groups, 1, Len(groups) - 1)) * Pow10(GroupLength(groups[Len(groups)]))
         + GroupValue(groups[Len(groups)])

AllDigits(s) == s # << >> /\ \A i \in 1..Len(s) : s[i] \in DigitGroups

NoFloat == [ ok |-> FALSE, value |-> 0 ]

\* float(s) of an unsigned text: digits, or digits '.' digits (one group)
UnsignedFloat(s) ==
    IF AllDigits(s) THEN [ ok |-> TRUE, value |-> IntegerOf(s) * Scale ]
    ELSE IF Len(s) >= 3 /\ s[Len(s) - 1] = "." /\ s[Len(s)] \in DigitGroups
            /\ AllDigits(SubSeq(s, 1, Len(s) - 2))
    THEN [ ok |-> TRUE,
           value |-> IntegerOf(SubSeq(s, 1, Len(s) - 2)) * Scale
                     + GroupValue(s[Len(s)]) * Pow10(4 - GroupLength(s[Len(s)])) ]
    ELSE NoFloat

\* float(s) of a text: surrounding whitespace and a sign are accepted,
\* anything else is a ValueError (ok = FALSE)
PyFloat(s) ==
    LET t == StripText(s)
    IN  IF t # << >> /\ t[1] = "-"
        THEN [ ok |-> UnsignedFloat(Tail(t)).ok, value |-> 0 - UnsignedFloat(Tail(t)).value ]
        ELSE UnsignedFloat(t)

NoValue == << "<None>" >>

Returns(v) == [ kind |-> "return", value |-> v ]
RaisesValueError == [ kind |-> "raise", value |-> 0 ]

\* clean_money_value (budget_processor.py:1437-1457)
CleanMoneyValue(value) ==
    IF value = NoValue \/ value = << >> THEN Returns(0)
    ELSE LET v == Remove(value, "$")
         IN  IF v # << >> /\ v[Len(v)] = "%"
             THEN IF PyFloat(RStripPercent(v)).ok
                  THEN Returns(PyFloat(RStripPercent(v)).value \div 100)
                  ELSE Returns(0)
             ELSE IF PyFloat(Remove(v, ",")).ok THEN Returns(PyFloat(Remove(v, ",")).value)
             ELSE Returns(0)

\* _parse_number (scripts/process_budget.py:122-146)
ParseNumber(value) ==
    IF value = NoValue \/ value = << >> THEN Returns(0)
    ELSE LET str_value == StripText(value)
         IN  IF str_value # << >> /\ str_value[Len(str_value)] = "%"
             THEN IF PyFloat(RStripPercent(str_value)).ok
                  THEN Returns(PyFloat(RStripPercent(str_value)).value \div 100)
                  ELSE RaisesValueError
             ELSE LET is_negative == str_value # << >> /\ str_value[1] = "("
                                     /\ str_value[Len(str_value)] = ")"
                      inner == IF is_negative THEN SubSeq(str_value, 2, Len(str_value) - 1)
                               ELSE str_value
                      cleaned == Remove(Remove(inner, "$"), ",")
                  IN  IF cleaned = << >> THEN Returns(0)
                      ELSE IF PyFloat(cleaned).ok
                      THEN Returns(IF is_negative THEN 0 - PyFloat(cleaned).value
                                   ELSE PyFloat(cleaned).value)
                      ELSE Returns(0)

\* the values of a cell: None, or a text made of an amount, a word or
\* nothing, with or without '$', '%', parentheses and surrounding blanks
MoneyBodies ==
    { << >>, << "1", ",", "234", ".", "56" >>, << "5" >>, << "0", ".", "00" >>,
      << "28" >>, << "-", "5" >>, << "abc" >> }
Optional(t) == { << >>, << t >> }
MoneyTexts ==
    { sp \o op \o d \o body \o pc \o cl \o sp :
        sp \in Optional(" "), op \in Optional("("), d \in Optional("$"),
        body \in MoneyBodies, pc \in Optional("%"), cl \in Optional(")") }
MoneyValues == { NoValue } \cup { t \in MoneyTexts :
                                    ("(" \in { t[i] : i \in 1..Len(t) })
                                        <=> (")" \in { t[i] : i \in 1..Len(t) }) }

Normalizers == { "clean_money_value", "_parse_number" }

Normalize(fn, value) ==
    IF fn = "clean_money_value" THEN CleanMoneyValue(value) ELSE ParseNumber(value)

\* a cell value reaches a normalizer
MoneyValueGiven ==
    /\ mn_pc = "idle"
    /\ mn_pc' = "given"
    /\ mn_fn' \in Normalizers
    /\ mn_value' \in MoneyValues
    /\ UNCHANGED << mn_outcome, OtherThanMoney >>

\* the normalizer returns or raises
MoneyNormalized ==
    /\ mn_pc = "given"
    /\ mn_pc' = "done"
    /\ mn_outcome' = Normalize(mn_fn, mn_value)
    /\ UNCHANGED << mn_fn, mn_value, OtherThanMoney >>

InitMoney == FetchIdle /\ BudgetIdle /\ VersionIdle /\ ExtIdle

NextMoney == MoneyValueGiven \/ MoneyNormalized

SpecMoney == InitMoney /\ [][NextMoney]_vars

\* the amount a text of the form [$]digits[,digits][.digits] states
IsAmount(text) == text # << >> /\ PyFloat(Remove(Remove(text, "$"), ",")).ok
                  /\ "-" \notin { text[i] : i \in 1..Len(text) }
AmountOf(text) == PyFloat(Remove(Remove(text, "$"), ",")).value

\* the text between the parentheses of a text surrounded by them
Parenthesised(text) ==
    Len(text) >= 2 /\ text[1] = "(" /\ text[Len(text)] = ")"
    /\ IsAmount(SubSeq(text, 2, Len(text) - 1))

\* a text without a digit
Unparsable(text) == \A i \in 1..Len(text) : text[i] \notin DigitGroups

\* C24: money normalization never raises; a value surrounded by parentheses
\* gives the negative amount; blank, None and unparsable input give 0.0.
C24_MoneyNormalization ==
    mn_pc = "done" =>
        /\ mn_outcome.kind = "return"
        /\ (mn_value # NoValue /\ Parenthesised(mn_value)) =>
              mn_outcome.value = 0 - AmountOf(SubSeq(mn_value, 2, Len(mn_value) - 1))
        /\ (mn_value = NoValue \/ Unparsable(mn_value)) => mn_outcome.value = 0

(***************************************************************************)
(* CLASS_MAPPINGS: the cells of the totals of every class, and             *)
(* _get_class_totals, which reads them in one batch.                       *)
(***************************************************************************)
NoCell == "<None>"

\* subtotal_cells, pw_cells, total_cells and client_total_cell of the classes
TotalCells(c) ==
    CASE c = "A" ->
           [ subtotal_cells |-> [ estimate |-> "P53", actual |-> "S53" ],
             pw_cells |-> [ estimate |-> "P54", actual |-> "S54" ],
             total_cells |-> [ estimate |-> "P55", actual |-> "S55" ],
             client_total_cell |-> NoCell ]
      [] c = "B" ->
           [ subtotal_cells |-> [ estimate |-> "Z53", actual |-> "AC53" ],
             pw_cells |-> [ estimate |-> "Z54", actual |-> "AC54" ],
             total_cells |-> [ estimate |-> "Z55", actual |-> "AC55" ],
             client_total_cell |-> NoCell ]
      [] c = "C" ->
           [ subtotal_cells |-> [ estimate |-> "AI16", actual |-> "AJ16" ],
             pw_cells |-> [ estimate |-> NoCell, actual |-> NoCell ],
             total_cells |-> [ estimate |-> "AI16", actual |-> "AJ16" ],
             client_total_cell |-> NoCell ]
      [] c = "D" ->
           [ subtotal_cells |-> [ estimate |-> "AI45", actual |-> "AJ45" ],
             pw_cells |-> [ estimate |-> NoCell, actual |-> NoCell ],
             total_cells |-> [ estimate |-> "AI45", actual |-> "AJ45" ],
             client_total_cell |-> NoCell ]
      [] c = "E" ->
           [ subtotal_cells |-> [ estimate |-> "AI60", actual |-> "AJ60" ],
             pw_cells |-> [ estimate |-> NoCell, actual |-> NoCell ],
             total_cells |-> [ estimate |-> "AI60", actual |-> "AJ60" ],
             client_total_cell |-> NoCell ]
      [] c = "F" ->
           [ subtotal_cells |-> [ estimate |-> "AO20", actual |-> "AR20" ],
             pw_cells |-> [ estimate |-> NoCell, actual |-> NoCell ],
             total_cells |-> [ estimate |-> "AO20", actual |-> "AR20" ],
             client_total_cell |-> NoCell ]
      [] c = "G" ->
           [ subtotal_cells |-> [ estimate |-> "AO36", actual |-> "AR36" ],
             pw_cells |-> [ estimate |-> "AO37", actual |-> "AR37" ],
             total_cells |-> [ estimate |-> "AO38", actual |-> "AR38" ],
             client_total_cell |-> NoCell ]
      [] c = "H" ->
           [ subtotal_cells |-> [ estimate |-> "AO54", actual |-> "AR54" ],
             pw_cells |-> [ estimate |-> NoCell, actual |-> NoCell ],
             total_cells |-> [ estimate |-> "AO54", actual |-> "AR54" ],
             client_total_cell |-> NoCell ]
      [] c = "I" ->
           [ subtotal_cells |-> [ estimate |-> "AX21", actual |-> "AZ21" ],
             pw_cells |-> [ estimate |-> NoCell, actual |-> NoCell ],
             total_cells |-> [ estimate |-> "AX21", actual |-> "AZ21" ],
             client_total_cell |-> NoCell ]
      [] c = "J" ->
           [ subtotal_cells |-> [ estimate |-> "AX31", actual |-> "AZ31" ],
             pw_cells |-> [ estimate |-> NoCell, actual |-> NoCell ],
             total_cells |-> [ estimate |-> "AX31", actual |-> "AZ31" ],
             client_total_cell |-> NoCell ]
      [] c = "K" ->
           [ subtotal_cells |-> [ estimate |-> "AX47", actual |-> "AZ47" ],
             pw_cells |-> [ estimate |-> NoCell, actual |-> NoCell ],
             total_cells |-> [ estimate |-> "AX47", actual |-> "AZ47" ],
             client_total_cell |-> "BA47" ]
      [] c = "L" ->
           [ subtotal_cells |-> [ estimate |-> "AX56", actual |-> "AZ56" ],
             pw_cells |-> [ estimate |-> NoCell, actual |-> NoCell ],
             total_cells |-> [ estimate |-> "AX56", actual |-> "AZ56" ],
             client_total_cell |-> "BA56" ]
      [] c = "M" ->
           [ subtotal_cells |-> [ estimate |-> "BG34", actual |-> "BH34" ],
             pw_cells |-> [ estimate |-> "BG35", actual |-> "BH35" ],
             total_cells |-> [ estimate |-> "BG36", actual |-> "BH36" ],
             client_total_cell |-> NoCell ]
      [] c = "M2" ->
           [ subtotal_cells |-> [ estimate |-> "BG45", actual |-> "BH45" ],
             pw_cells |-> [ estimate |-> NoCell, actual |-> NoCell ],
             total_cells |-> [ estimate |-> "BG45", actual |-> "BH45" ],
             client_total_cell |-> NoCell ]
      [] c = "N" ->
           [ subtotal_cells |-> [ estimate |-> "BG55", actual |-> "BH55" ],
             pw_cells |-> [ estimate |-> NoCell, actual |-> NoCell ],
             total_cells |-> [ estimate |-> "BG55", actual |-> "BH55" ],
             client_total_cell |-> NoCell ]
      [] c = "O" ->
           [ subtotal_cells |-> [ estimate |-> "BM38", actual |-> "BO38" ],
             pw_cells |-> [ estimate |-> NoCell, actual |-> NoCell ],
             total_cells |-> [ estimate |-> "BM38", actual |-> "BO38" ],
             client_total_cell |-> "BP38" ]
      [] c = "P" ->
           [ subtotal_cells |-> [ estimate |-> "BM52", actual |-> "BO52" ],
             pw_cells |-> [ estimate |-> NoCell, actual |-> NoCell ],
             total_cells |-> [ estimate |-> "BM52", actual |-> "BO52" ],
             client_total_cell |-> NoCell ]

\* the ranges of the batch, in the order they are collected (lines 742-756)
KeyRanges(mapping, key) ==
    << mapping.subtotal_cells[key] >>
    \o (IF mapping.pw_cells.estimate # NoCell THEN << mapping.pw_cells[key] >> ELSE << >>)
    \o << mapping.total_cells[key] >>
TotalsRanges(mapping) ==
    KeyRanges(mapping, "estimate") \o KeyRanges(mapping, "actual")
    \o (IF mapping.client_total_cell # NoCell THEN << mapping.client_total_cell >> ELSE << >>)

\* the value of a result, "$0.00" for an empty one, with its dollar sign
TotalText(v) ==
    IF v = << >> THEN << "$", "0.00" >>
    ELSE IF v[1] = "$" THEN v
    ELSE << "$" >> \o v

\* _get_class_totals: the results are assigned by result_index, the two
\* subtotals first, then the two P&W values, the two totals and the client
\* total (lines 761-801)
GetClassTotals(mapping, sheet) ==
    LET ranges == TotalsRanges(mapping)
        results == [ i \in 1..Len(ranges) |-> sheet[ranges[i]] ]
        has_pw == mapping.pw_cells.estimate # NoCell
        after_pw == IF has_pw THEN 4 ELSE 2
    IN  [ class_estimate_subtotal |-> TotalText(results[1]),
          class_actual_subtotal |-> TotalText(results[2]),
          class_estimate_pnw |-> IF has_pw THEN TotalText(results[3]) ELSE None,
          class_actual_pnw |-> IF has_pw THEN TotalText(results[4]) ELSE None,
          class_estimate_total |-> TotalText(results[after_pw + 1]),
          class_actual_total |-> TotalText(results[after_pw + 2]) ]
        @@ (IF mapping.client_total_cell # NoCell
            THEN [ class_client_total |-> TotalText(results[after_pw + 3]) ]
            ELSE << >>)

\* what the cells of the totals of a class may hold
CellsOf(mapping) == { TotalsRanges(mapping)[i] : i \in 1..Len(TotalsRanges(mapping)) }
TotalValues == { << >>, << "$", "7" >>, << "9" >> }
TotalsSheets(c) == [ CellsOf(TotalCells(c)) -> TotalValues ]

\* the sheet of a class is at hand
TotalsSheetGiven ==
    /\ ct_pc = "idle"
    /\ ct_pc' = "given"
    /\ \E c \in ClassCodes :
        /\ ct_class' = c
        /\ ct_sheet' \in TotalsSheets(c)
    /\ UNCHANGED << ct_totals, OtherThanTotals >>

\* the totals are read
TotalsRead ==
    /\ ct_pc = "given"
    /\ ct_pc' = "done"
    /\ ct_totals' = GetClassTotals(TotalCells(ct_class), ct_sheet)
    /\ UNCHANGED << ct_class, ct_sheet, OtherThanTotals >>

InitTotals == FetchIdle /\ BudgetIdle /\ VersionIdle /\ ExtIdle

NextTotals == TotalsSheetGiven \/ TotalsRead

SpecTotals == InitTotals /\ [][NextTotals]_vars

\* C25: each total of a class is the value of its own designated cell.
C25_TotalsFromOwnCells ==
    ct_pc = "done" =>
        LET mapping == TotalCells(ct_class)
        IN  /\ ct_totals.class_estimate_subtotal
                  = TotalText(ct_sheet[mapping.subtotal_cells.estimate])
            /\ ct_totals.class_actual_subtotal
                  = TotalText(ct_sheet[mapping.subtotal_cells.actual])
            /\ ct_totals.class_estimate_total
                  = TotalText(ct_sheet[mapping.total_cells.estimate])
            /\ ct_totals.class_actual_total
                  = TotalText(ct_sheet[mapping.total_cells.actual])
            /\ mapping.pw_cells.estimate # NoCell =>
                  /\ ct_totals.class_estimate_pnw
                        = TotalText(ct_sheet[mapping.pw_cells.estimate])
                  /\ ct_totals.class_actual_pnw
                        = TotalText(ct_sheet[mapping.pw_cells.actual])
            /\ mapping.client_total_cell # NoCell =>
                  ct_totals.class_client_total = TotalText(ct_sheet[mapping.client_total_cell])

(***************************************************************************)
(* CLASS_MAPPINGS: line_items_range and columns of every class, against    *)
(* the offsets _process_line_item reads.                                   *)
(***************************************************************************)
\* the first column of line_items_range
RangeStart(c) ==
    CASE c = "A" -> << "L" >>
      [] c = "B" -> << "T" >>
      [] c = "C" -> << "A", "D" >>
      [] c = "D" -> << "A", "D" >>
      [] c = "E" -> << "A", "D" >>
      [] c = "F" -> << "A", "K" >>
      [] c = "G" -> << "A", "K" >>
      [] c = "H" -> << "A", "K" >>
      [] c = "I" -> << "A", "S" >>
      [] c = "J" -> << "A", "S" >>
      [] c = "K" -> << "A", "S" >>
      [] c = "L" -> << "A", "S" >>
      [] c = "M" -> << "B", "B" >>
      [] c = "M2" -> << "B", "B" >>
      [] c = "N" -> << "B", "B" >>
      [] c = "O" -> << "B", "I" >>
      [] c = "P" -> << "B", "I" >>

\* columns: the column of every field, the field named as in the line item
Columns(c) ==
    CASE c = "A" ->
           [ estimate_days |-> << "N" >>,
             estimate_rate |-> << "O" >>,
             estimate_total |-> << "P" >>,
             actual_days |-> << "Q" >>,
             actual_rate |-> << "R" >>,
             actual_total |-> << "S" >> ]
      [] c = "B" ->
           [ estimate_days |-> << "V" >>,
             estimate_rate |-> << "W" >>,
             estimate_ot_rate |-> << "X" >>,
             estimate_ot_hours |-> << "Y" >>,
             estimate_total |-> << "Z" >>,
             actual_days |-> << "A", "A" >>,
             actual_rate |-> << "A", "B" >>,
             actual_total |-> << "A", "C" >> ]
      [] c = "C" ->
           [ estimate_number |-> << "A", "F" >>,
             estimate_days |-> << "A", "G" >>,
             estimate_rate |-> << "A", "H" >>,
             estimate_total |-> << "A", "I" >>,
             actual_total |-> << "A", "J" >> ]
      [] c = "D" ->
           [ estimate_number |-> << "A", "F" >>,
             estimate_days |-> << "A", "G" >>,
             estimate_rate |-> << "A", "H" >>,
             estimate_total |-> << "A", "I" >>,
             actual_total |-> << "A", "J" >> ]
      [] c = "E" ->
           [ estimate_number |-> << "A", "F" >>,
             estimate_days |-> << "A", "G" >>,
             estimate_rate |-> << "A", "H" >>,
             estimate_total |-> << "A", "I" >>,
             actual_total |-> << "A", "J" >> ]
      [] c = "F" ->
           [ estimate_number |-> << "A", "M" >>,
             estimate_rate |-> << "A", "N" >>,
             estimate_total |-> << "A", "O" >>,
             actual_total |-> << "A", "R" >> ]
      [] c = "G" ->
           [ estimate_days |-> << "A", "M" >>,
             estimate_rate |-> << "A", "N" >>,
             estimate_total |-> << "A", "O" >>,
             actual_total |-> << "A", "R" >> ]
      [] c = "H" ->
           [ estimate_number |-> << "A", "M" >>,
             estimate_rate |-> << "A", "N" >>,
             estimate_total |-> << "A", "O" >>,
             actual_total |-> << "A", "R" >> ]
      [] c = "I" ->
           [ estimate_number |-> << "A", "U" >>,
             estimate_days |-> << "A", "V" >>,
             estimate_rate |-> << "A", "W" >>,
             estimate_total |-> << "A", "X" >>,
             actual_total |-> << "A", "Z" >> ]
      [] c = "J" ->
           [ estimate_number |-> << "A", "U" >>,
             estimate_days |-> << "A", "V" >>,
             estimate_rate |-> << "A", "W" >>,
             estimate_total |-> << "A", "X" >>,
             actual_total |-> << "A", "Z" >> ]
      [] c = "K" ->
           [ estimate_hours |-> << "A", "U" >>,
             estimate_rate |-> << "A", "V" >>,
             estimate_total |-> << "A", "W" >>,
             actual_hours |-> << "A", "X" >>,
             actual_total |-> << "A", "Y" >> ]
      [] c = "L" ->
           [ estimate_days |-> << "A", "V" >>,
             estimate_rate |-> << "A", "W" >>,
             estimate_total |-> << "A", "X" >>,
             actual_hours |-> << "A", "Y" >>,
             actual_total |-> << "A", "Z" >> ]
      [] c = "M" ->
           [ estimate_number |-> << "B", "D" >>,
             estimate_days |-> << "B", "E" >>,
             estimate_rate |-> << "B", "F" >>,
             estimate_total |-> << "B", "G" >>,
             actual_total |-> << "B", "H" >> ]
      [] c = "M2" ->
           [ estimate_number |-> << "B", "H", "3", "5" >>,
             estimate_days |-> << "B", "H", "3", "6" >>,
             estimate_rate |-> << "B", "H", "3", "7" >>,
             estimate_total |-> << "B", "H", "3", "8" >>,
             actual_total |-> << "B", "H", "3", "9" >> ]
      [] c = "N" ->
           [ estimate_number |-> << "B", "D" >>,
             estimate_days |-> << "B", "E" >>,
             estimate_rate |-> << "B", "F" >>,
             estimate_total |-> << "B", "G" >>,
             actual_total |-> << "B", "H" >> ]
      [] c = "O" ->
           [ estimate_hours |-> << "B", "K" >>,
             estimate_rate |-> << "B", "L" >>,
             estimate_total |-> << "B", "M" >>,
             actual_hours |-> << "B", "N" >>,
             actual_total |-> << "B", "O" >> ]
      [] c = "P" ->
           [ estimate_hours |-> << "B", "K" >>,
             estimate_rate |-> << "B", "L" >>,
             estimate_total |-> << "B", "M" >>,
             actual_hours |-> << "B", "N" >>,
             actual_total |-> << "B", "O" >> ]

\* rows whose cells tell their own offset: cell i holds a tag and the
\* numeral of i
ProbeTags == { "x", "y" }
ProbeRow(tag, n) == [ i \in 1..n |-> << tag, Numerals[i] >> ]
ProbeRows == { ProbeRow(tag, n) : tag \in ProbeTags, n \in 2..10 }

\* data_values of one such row have been fetched
ProbeRowFetched ==
    /\ li_pc = "idle"
    /\ \E c \in ClassCodes : \E row \in ProbeRows :
        /\ li_class' = c
        /\ li_rows' = << row >>
    /\ li_pc' = "rows"
    /\ UNCHANGED << li_items, fetchVars, budgetVars, versionVars, handlerVars, uploadVars,
                    modelVars, lateVars >>

InitLayout == FetchIdle /\ BudgetIdle /\ VersionIdle /\ ExtIdle

NextLayout == ProbeRowFetched \/ RowsProcessed

SpecLayout == InitLayout /\ [][NextLayout]_vars

\* the offset of a column from the first column of the range
OffsetOf(c, column) == ColumnIndex(LettersOf(column)) - ColumnIndex(RangeStart(c))

\* the offset a value was read from
ReadFrom(value) == OrdFromZero(value[Len(value)])

\* C26: every field of the columns of a class is read from the offset of its
\* column within the line-item range.
C26_OffsetsFollowColumns ==
    (li_pc = "done" /\ Len(li_rows[1]) = 10) =>
        \A field \in DOMAIN Columns(li_class) :
            /\ field \in DOMAIN li_items[1]
            /\ li_items[1][field] # None
            /\ ReadFrom(li_items[1][field]) = OffsetOf(li_class, Columns(li_class)[field])


(***************************************************************************)
(* The pause between classes.  process_budget, the assembler, goes from    *)
(* the end of one class straight to the header fetch of the next           *)
(* (ClassBegin); the loop that pauses, process_sheet's, is never entered:  *)
(* it first calls self._get_sheet_title, which the class does not define.  *)
(***************************************************************************)
\* processed_classes: the classes the loop has been through
ProcessedClasses == Len(b_log)

\* the step on which the loop reaches its next class
NextClassReached == b_log' # b_log

\* the class's first service call is already pending
FirstFetchPending == f_pc = "call" /\ f_calls = << >> /\ f_sleeps = << >>

\* C27: once 2, 4, 6, ... classes have been processed, the following class
\* does not start with its first fetch pending: a pause comes first
C27_PauseAfterEverySecondClass ==
    [][ (NextClassReached /\ ProcessedClasses > 0 /\ ProcessedClasses % 2 = 0)
            => ~FirstFetchPending' ]_vars


(***************************************************************************)
(* SpecRoutines: every range-fetch routine of the two BudgetProcessor      *)
(* classes, the ones of budget_sync/services (FetchVariants) and the ones  *)
(* of the older services/budget_processor.py, each against a service that  *)
(* may answer any call with values or with an error.                       *)
(***************************************************************************)
\* the deepest recursion of the older batched routine that is followed
MaxDepth == 6

older_max_retries == 3

OlderVariants == { "older_get_range_values", "older_get_range_values_batch" }
Routines == FetchVariants \cup OlderVariants

\* the older batched routine retries by calling itself: no attempt is the
\* last one
MayRetryIn(variant, attempt) ==
    CASE variant = "older_get_range_values" -> attempt < older_max_retries - 1
      [] variant = "older_get_range_values_batch" -> TRUE
      [] OTHER -> MayRetry(attempt)

\* time.sleep(2 ** attempt), time.sleep(2), time.sleep(delay)
DelayIn(variant, attempt) ==
    CASE variant = "older_get_range_values" -> Pow2(attempt)
      [] variant = "older_get_range_values_batch" -> 2
      [] OTHER -> BackoffDelay(attempt)

InitRoutines ==
    /\ \E variant \in Routines :
        /\ f_variant = variant
        /\ f_site = "standalone"
    /\ f_pc = "call"
    /\ f_attempt = 0
    /\ f_calls = << >>
    /\ f_sleeps = << >>
    /\ f_result = NoResult
    /\ BudgetIdle
    /\ VersionIdle
    /\ ExtIdle

\* .execute() returns
RoutineCallOk ==
    /\ Len(f_calls) < MaxDepth
    /\ FetchCallOk(StandalonePayloads)
    /\ UNCHANGED << extVars, budgetVars, versionVars >>

\* .execute() raises e
RoutineCallRaises ==
    /\ f_pc = "call"
    /\ Len(f_calls) < MaxDepth
    /\ \E e \in ServiceErrors :
        /\ f_calls' = Append(f_calls, CallError(e))
        /\ IF IsRateLimit(e) /\ MayRetryIn(f_variant, f_attempt)
              THEN /\ f_pc' = "sleep"
                   /\ f_result' = f_result
              ELSE /\ f_pc' = "raised"
                   /\ f_result' = Raised(e)
    /\ UNCHANGED << f_variant, f_site, f_attempt, f_sleeps >>
    /\ UNCHANGED << extVars, budgetVars, versionVars >>

\* time.sleep, then the next attempt (the next recursive call)
RoutineSleep ==
    /\ f_pc = "sleep"
    /\ f_sleeps' = Append(f_sleeps, DelayIn(f_variant, f_attempt))
    /\ f_attempt' = f_attempt + 1
    /\ f_pc' = "call"
    /\ UNCHANGED << f_variant, f_site, f_calls, f_result >>
    /\ UNCHANGED << extVars, budgetVars, versionVars >>

NextRoutines == RoutineCallOk \/ RoutineCallRaises \/ RoutineSleep

SpecRoutines == InitRoutines /\ [][NextRoutines]_vars

\* the number of service calls the routine is configured for
ConfiguredCalls(variant) ==
    IF variant = "older_get_range_values" THEN older_max_retries ELSE max_retries


\* C28: one invocation of any routine makes at most its configured number
\* of service calls, and when each of them was answered with a rate-limit
\* signal the invocation has raised
C28_FetchRoutinesTerminate ==
    /\ Len(f_calls) <= ConfiguredCalls(f_variant)
    /\ (AllRateLimited /\ Len(f_calls) = ConfiguredCalls(f_variant)) => f_pc = "raised"

\* the routines other than the older batched one keep to it
OtherRoutinesBounded ==
    f_variant # "older_get_range_values_batch" => C28_FetchRoutinesTerminate


(***************************************************************************)
(* The frame of a version lookup: which entries of the tracking file the   *)
(* write of one invocation changes.                                        *)
(***************************************************************************)
\* the step on which invocation p rewrites the file (or fails to)
Writes(p) == v_pc[p] = "read" /\ v_pc'[p] # "read"

\* the entry of key k is the same before and after the step
EntryKept(k) ==
    /\ k \in DOMAIN store <=> k \in DOMAIN store'
    /\ k \in DOMAIN store => store'[k] = store[k]

\* C29: the write of a lookup for one key leaves the entries of all other
\* keys exactly as they were, also when lookups for different keys overlap
C29_OnlyOwnKeyChanges ==
    [][ \A p \in Procs : Writes(p) =>
            \A k \in (DOMAIN store \cup DOMAIN store') \ { KeyOf(v_in[p]) } : EntryKept(k) ]_vars


(***************************************************************************)
(* SpecJobWebhook: handle_job_webhook with JobSetupService and             *)
(* BudgetTemplateService; the task tracker, the file storage and the       *)
(* spreadsheet client answer each call with a result or with an error.     *)
(***************************************************************************)
TaskIds == { "t1", "t2", "t3" }
Events == { "taskCreated", "taskUpdated" }

\* request.get_json(): no JSON body, a body without 'event', an event
NoPayload == [ kind |-> "none" ]
Payloads ==
    { NoPayload }
    \cup { ("task_id" :> t) : t \in TaskIds }
    \cup { ("event" :> e) @@ ("task_id" :> t) : e \in Events, t \in TaskIds }

\* payload.get('event') != 'taskCreated'; a payload that is no dict lands in
\* the except branch, which returns False as well
IsJobTaskCreation(payload) ==
    /\ payload # NoPayload
    /\ "event" \in DOMAIN payload
    /\ payload["event"] = "taskCreated"

\* what the task tracker holds of a task
JobNames == { "jobA", "jobB", "jobC" }
ClientFields == { << >>, ("client_name" :> "clientA") }
Tasks == [ name : JobNames, custom_fields : ClientFields ]

\* task['custom_fields'].get('client_name', 'Unknown Client')
ClientNameOf(task) ==
    IF "client_name" \in DOMAIN task.custom_fields
    THEN task.custom_fields["client_name"]
    ELSE "Unknown Client"

CallOk(name) == [ name |-> name, ok |-> TRUE ]
CallFailed(name) == [ name |-> name, ok |-> FALSE ]

\* the first n of the calls succeeded and, where n is not all of them, the
\* next one raised
RECURSIVE CallsMade(_, _)
CallsMade(names, n) ==
    IF names = << >> THEN << >>
    ELSE IF n = 0 THEN << CallFailed(Head(names)) >>
    ELSE << CallOk(Head(names)) >> \o CallsMade(Tail(names), n - 1)

Response(body, status) == [ body |-> body, status |-> status ]
ErrorOf(name) == << "error", name >>
KeyErrorOf(key) == << "KeyError", key >>

\* JobSetupService.create_job_structure
JobStructureCalls == << "get_task", "create_folder", "create_list" >>

JobStructure(task_id, task) ==
    [ task_id |-> task_id,
      client_name |-> ClientNameOf(task),
      job_name |-> task.name,
      folder_id |-> "folder",
      list_id |-> "list" ]

\* BudgetTemplateService.setup_budget
SetupBudgetCalls == << "create_budget_folder_structure", "copy_template", "share_file" >>

SetupBudget(job) ==
    [ budget_id |-> "budget", budget_url |-> "url", folder_structure |-> "folders" ]

\* JobSetupService.update_task_references
UpdateReferencesCalls == << "update_custom_field", "update_custom_field" >>

\* the request arrives: payload, _is_job_task_creation, the two services,
\* task_id = payload['task_id']
WebhookReceived ==
    /\ wh_pc = "idle"
    /\ \E payload \in Payloads :
        /\ wh_payload' = payload
        /\ IF ~IsJobTaskCreation(payload)
           THEN /\ wh_pc' = "done"
                /\ wh_response' = Response("Not a job task creation event", 200)
           ELSE /\ wh_pc' = "job"
                /\ wh_response' = wh_response
    /\ UNCHANGED << wh_job, wh_budget, wh_calls, OtherThanWebhook >>

\* job_structure = job_service.create_job_structure(task_id)
JobStructureCreated ==
    /\ wh_pc = "job"
    /\ \E n \in 0..Len(JobStructureCalls) : \E task \in Tasks :
        /\ wh_calls' = wh_calls \o CallsMade(JobStructureCalls, n)
        /\ IF n = Len(JobStructureCalls)
           THEN /\ wh_job' = JobStructure(wh_payload["task_id"], task)
                /\ wh_pc' = "budget"
                /\ wh_response' = wh_response
           ELSE /\ wh_job' = wh_job
                /\ wh_pc' = "done"
                /\ wh_response' = Response(ErrorOf(JobStructureCalls[n + 1]), 500)
    /\ UNCHANGED << wh_payload, wh_budget, OtherThanWebhook >>

\* budget_info = budget_service.setup_budget(...): folders, template copy,
\* sharing (_setup_sharing raises again what share_file raised)
BudgetSetUp ==
    /\ wh_pc = "budget"
    /\ \E n \in 0..Len(SetupBudgetCalls) :
        /\ wh_calls' = wh_calls \o CallsMade(SetupBudgetCalls, n)
        /\ IF n = Len(SetupBudgetCalls)
           THEN /\ wh_budget' = SetupBudget(wh_job)
                /\ wh_pc' = "references"
                /\ wh_response' = wh_response
           ELSE /\ wh_budget' = wh_budget
                /\ wh_pc' = "done"
                /\ wh_response' = Response(ErrorOf(SetupBudgetCalls[n + 1]), 500)
    /\ UNCHANGED << wh_payload, wh_job, OtherThanWebhook >>

\* the rest of the try body: the arguments of update_task_references are
\* read from budget_info, the task's two fields are updated, the audit log
\* is updated (update_audit_log swallows what the sheets client raises)
ReferencesUpdated ==
    /\ wh_pc = "references"
    /\ wh_pc' = "done"
    /\ IF "list_id" \notin DOMAIN wh_budget
       THEN /\ wh_calls' = wh_calls
            /\ wh_response' = Response(KeyErrorOf("list_id"), 500)
       ELSE \E n \in 0..Len(UpdateReferencesCalls) :
            IF n < Len(UpdateReferencesCalls)
            THEN /\ wh_calls' = wh_calls \o CallsMade(UpdateReferencesCalls, n)
                 /\ wh_response' = Response(ErrorOf(UpdateReferencesCalls[n + 1]), 500)
            ELSE /\ \E audit \in { CallOk("update_audit_log"), CallFailed("update_audit_log") } :
                    wh_calls' = wh_calls \o CallsMade(UpdateReferencesCalls, n) \o << audit >>
                 /\ wh_response' = Response("Success", 200)
    /\ UNCHANGED << wh_payload, wh_job, wh_budget, OtherThanWebhook >>

InitJobWebhook == FetchIdle /\ BudgetIdle /\ VersionIdle /\ ExtIdle

NextJobWebhook == WebhookReceived \/ JobStructureCreated \/ BudgetSetUp \/ ReferencesUpdated

SpecJobWebhook == InitJobWebhook /\ [][NextJobWebhook]_vars

\* the calls of a handled taskCreated webhook, in order
AllCalls ==
    JobStructureCalls \o SetupBudgetCalls \o UpdateReferencesCalls \o << "update_audit_log" >>

NoCallFailed == \A i \in 1..Len(wh_calls) : wh_calls[i].ok

CallNames == [ i \in 1..Len(wh_calls) |-> wh_calls[i].name ]

\* C30: a taskCreated webhook none of whose collaborator calls failed went
\* through job structure, budget setup, task references and audit log, in
\* this order, and was answered ('Success', 200); 500 is answered only
\* after a failed call
C30_WebhookSucceeds ==
    wh_pc = "done" =>
        /\ (IsJobTaskCreation(wh_payload) /\ NoCallFailed) =>
                /\ CallNames = AllCalls
                /\ wh_response = Response("Success", 200)
        /\ wh_response.status = 500 => ~NoCallFailed


\* what the handler does instead: with every call answered, it stops at
\* budget_info['list_id'], before the task's references are updated
WebhookEndsInKeyError ==
    (wh_pc = "done" /\ IsJobTaskCreation(wh_payload) /\ NoCallFailed) =>
        /\ CallNames = JobStructureCalls \o SetupBudgetCalls
        /\ wh_response = Response(KeyErrorOf("list_id"), 500)

====
